---- MODULE Spec2Model ----
(***************************************************************************)
(* A model of planeshift's platform-independent core (src/src/lib.rs):     *)
(* the LayerMap component store, the layer tree operations of              *)
(* LayerContext, the nested-transaction protocol and TransactionPromise,   *)
(* running over the software compositor backend (src/src/backends/gl.rs).  *)
(*                                                                         *)
(* Every public operation of LayerContext is one action.  An operation is  *)
(* a function from the program state (a record, see State) to the program  *)
(* state, built from the statements of the Rust code in their order, so    *)
(* that a panic in the middle of an operation leaves exactly the writes    *)
(* made before it.  debug_assert! is compiled in or out by the build: the  *)
(* build is chosen in Init (debug_assertions) and never changes.           *)
(***************************************************************************)
EXTENDS Integers, Sequences, FiniteSets, TLC

\* ------------------------------------------------------------------ bounds
\* Layer ids the model allocates: next_layer_id stays <= MaxLayers.
MaxLayers == 3
\* Calls of begin_transaction per outermost transaction (the nesting depth
\* is at most this).
MaxBegins == 2
\* Outermost transactions (hence transaction promises) per behaviour.
MaxTransactions == 2
\* Continuations the caller registers per behaviour.
MaxConts == 2
\* Calls of the public operations per behaviour.
MaxCalls == 8
\* Resolutions of one promise after which PromiseResolve leaves it alone.
MaxResolves == 2
\* Window builders a caller of alternate::Backend::new chooses from.
MaxBuilders == 3
\* Layers of the scene that is committed: a root container and surfaces.
SceneLayers == 4
\* Calls made on the scene once it is set up.
SceneCalls == 5

LayerIds == 0..(MaxLayers - 1)

\* LayerId(pub u32).  A u32 is held as the 32-bit signed integer with the
\* same bits: the values from 2^31 to 2^32 - 1 are the negative integers,
\* and u32::MAX, all bits set, is -1.
U32Max == 0 - 1
I32Max == 2147483647
\* a < b on u32
U32Less(a, b) == IF (a < 0) = (b < 0) THEN a < b ELSE b < 0
\* a + 1 on u32 below u32::MAX
U32Succ(a) == IF a = I32Max THEN (0 - I32Max) - 1 ELSE a + 1
PromiseIds == 0..(MaxTransactions - 1)
ContIds == 0..(MaxConts - 1)

\* ------------------------------------------------------------ Option<T>
\* Option<T>: None is the empty tuple, Some(x) the one-element tuple.
None == << >>
Some(x) == << x >>
IsSome(o) == o # None
IsNone(o) == o = None
Unwrap(o) == o[1]

\* --------------------------------------------------------- LayerParent
NativeHost == << "NativeHost" >>
Layer(p) == << "Layer", p >>
IsLayerParent(par) == Len(par) = 2
ParentLayer(par) == par[2]

\* ------------------------------------------------------ SurfaceOptions
OPAQUE == 1
DEPTH == 2
STENCIL == 4
\* SurfaceOptions::empty()
EmptyOptions == 0
\* bitflags contains(): the bit of flag f is set in the bitset o
Contains(o, f) == (o \div f) % 2 = 1
\* bitflags intersects(DEPTH | STENCIL)
IntersectsDepthStencil(o) == Contains(o, DEPTH) \/ Contains(o, STENCIL)
\* The option sets the caller passes to set_layer_surface_options.
OptionInputs == {EmptyOptions, OPAQUE, DEPTH}
\* The one option set passed where only the layer tree is explored.
TreeOptions == {OPAQUE}

\* ------------------------------------------------------------ geometry
\* Rect<f32>: origin (x, y) and size (w, h).  Coordinates are counted in
\* half pixels (the f32 values k/2), so that rounding is not the identity.
Rect(x, y, w, h) == [x |-> x, y |-> y, w |-> w, h |-> h]
\* Rect::zero()
ZeroRect == Rect(0, 0, 0, 0)
\* The rectangles the caller passes: (1,1) 2x2 and (0.5,0.5) 1x1 pixels.
RectInputs == {Rect(2, 2, 4, 4), Rect(1, 1, 2, 2)}
\* The one rectangle passed where only the layer tree is explored.
TreeRects == {Rect(1, 1, 2, 2)}

Min(a, b) == IF a <= b THEN a ELSE b
Max(a, b) == IF a >= b THEN a ELSE b

\* euclid Rect::translate(by the vector (dx, dy))
Translate(r, dx, dy) == [r EXCEPT !.x = r.x + dx, !.y = r.y + dy]

\* euclid Rect::union: an empty-sized operand yields the other operand,
\* otherwise the bounding box.
\* The union as the box around the corners of both, zero-sized or not.
union_of_corners(a, b) ==
    Rect(Min(a.x, b.x), Min(a.y, b.y),
         Max(a.x + a.w, b.x + b.w) - Min(a.x, b.x),
         Max(a.y + a.h, b.y + b.h) - Min(a.y, b.y))

Union(a, b) ==
    IF a.w = 0 /\ a.h = 0 THEN b
    ELSE IF b.w = 0 /\ b.h = 0 THEN a
    ELSE LET x0 == Min(a.x, b.x)
             y0 == Min(a.y, b.y)
             x1 == Max(a.x + a.w, b.x + b.w)
             y1 == Max(a.y + a.h, b.y + b.h)
         IN  Rect(x0, y0, x1 - x0, y1 - y0)

\* f32::round on a non-negative k/2: to the nearest whole pixel, halves up.
RoundPx(v) == (v + 1) \div 2
FloorPx(v) == v \div 2
CeilPx(v) == (v + 1) \div 2
\* size.round().to_u32(): the size in whole pixels (gl.rs:320)
RoundSize(r) == << RoundPx(r.w), RoundPx(r.h) >>
\* bounds.round_out().size.to_u32(): the size of the smallest pixel-aligned
\* rectangle containing r (gl.rs:354)
RoundOutSize(r) ==
    << CeilPx(r.x + r.w) - FloorPx(r.x), CeilPx(r.y + r.h) - FloorPx(r.y) >>

\* --------------------------------------------------------------- state
VARIABLES
    debug_assertions,     \* the build: debug_assert! compiled in (TRUE) or out
    next_layer_id,        \* LayerContext.next_layer_id
    transaction,          \* LayerContext.transaction: Option<TransactionInfo>
    tree_component,       \* LayerMap<LayerTreeInfo>
    container_component,  \* LayerMap<LayerContainerInfo>
    geometry_component,   \* LayerMap<LayerGeometryInfo>
    surface_component,    \* LayerMap<LayerSurfaceInfo>
    native_component,     \* gl::Backend.native_component
    hosted_layer,         \* gl::Backend.hosted_layer
    dirty_rect,           \* gl::Backend.dirty_rect
    promises,             \* on_fulfilled of every TransactionPromise created
    next_promise,         \* how many TransactionPromise::new() calls so far
    returned,             \* the promises end_transaction has returned
    runs,                 \* how often each continuation has been invoked
    next_cont,            \* how many continuations have been registered
    resolved,             \* how often resolve() ran on each promise
    registered,           \* per continuation: its promise and resolved[] then
    hooks,                \* how often Backend::begin/end_transaction ran
    calls,                \* begin/end_transaction calls since the context was last Idle
    created,              \* per layer id: what add_* returned it as, or "deleted"
    fault,                \* whether, how and in which call the program stopped
    ncalls,               \* how many operations and thread steps have been taken
    threads,              \* where the threads sharing a promise are in then/resolve
    frame,                \* the draws of the pass last rendered to the default framebuffer
    screenshots,          \* per continuation: the read-back it is, if it is one
    constructing,         \* the call of alternate::Backend::new, if one is made
    gl_interface,         \* how often the GLInterface was asked to draw and to present
    presented_before,     \* per continuation: the frames presented when it last ran
    gl_objects            \* per layer: the GL objects generated and deleted for it

vars == << debug_assertions, next_layer_id, transaction, tree_component,
           container_component, geometry_component, surface_component,
           native_component, hosted_layer, dirty_rect, promises,
           next_promise, returned, runs, next_cont, resolved, registered,
           hooks, calls, created,
           fault, ncalls, threads, frame, screenshots, constructing,
           gl_interface, presented_before, gl_objects >>

\* The component maps of LayerContext.
maps == << tree_component, container_component, geometry_component,
           surface_component >>

\* A GLInterface (gl.rs:702-715) that nothing was asked of yet.
NewConnection == [prepare_to_draw |-> 0, present |-> 0]

\* The GL objects of a backend that has made none: for each layer the
\* numbers of framebuffer objects, textures and renderbuffers generated for
\* it (gl::Gen*) and deleted (gl::Delete*).
NoObjects(ids) ==
    [l \in ids |->
        [generated |-> [framebuffers |-> 0, textures |-> 0, renderbuffers |-> 0],
         deleted |-> [framebuffers |-> 0, textures |-> 0, renderbuffers |-> 0]]]

\* The program state as one record: what an operation reads and rewrites.
State ==
    [ debug |-> debug_assertions,
      next_layer_id |-> next_layer_id,
      transaction |-> transaction,
      tree_component |-> tree_component,
      container_component |-> container_component,
      geometry_component |-> geometry_component,
      surface_component |-> surface_component,
      native_component |-> native_component,
      hosted_layer |-> hosted_layer,
      dirty_rect |-> dirty_rect,
      promises |-> promises,
      next_promise |-> next_promise,
      returned |-> returned,
      runs |-> runs,
      hooks |-> hooks,
      resolved |-> resolved,
      registered |-> registered,
      frame |-> frame,
      screenshots |-> screenshots,
      connection |-> gl_interface,
      presented_before |-> presented_before,
      gl_objects |-> gl_objects,
      fault |-> fault.kind ]

\* fault: kind is "none" while the program runs; otherwise "panic",
\* "stack_overflow" (a recursion without end) or "hang" (a loop without end),
\* with the operation that stopped and the layer it was called on.
NoLayer == 0 - 1
NoFault == [kind |-> "none", op |-> "", layer |-> NoLayer]

\* The variables of the program become the record r that op(layer) computed.
Yields(r, op, layer) ==
    /\ debug_assertions' = r.debug
    /\ next_layer_id' = r.next_layer_id
    /\ transaction' = r.transaction
    /\ tree_component' = r.tree_component
    /\ container_component' = r.container_component
    /\ geometry_component' = r.geometry_component
    /\ surface_component' = r.surface_component
    /\ native_component' = r.native_component
    /\ hosted_layer' = r.hosted_layer
    /\ dirty_rect' = r.dirty_rect
    /\ promises' = r.promises
    /\ next_promise' = r.next_promise
    /\ returned' = r.returned
    /\ runs' = r.runs
    /\ hooks' = r.hooks
    /\ resolved' = r.resolved
    /\ registered' = r.registered
    /\ frame' = r.frame
    /\ screenshots' = r.screenshots
    /\ gl_interface' = r.connection
    /\ presented_before' = r.presented_before
    /\ gl_objects' = r.gl_objects
    /\ fault' = IF r.fault = "none" THEN NoFault
                ELSE [kind |-> r.fault, op |-> op, layer |-> layer]
    /\ ncalls' = ncalls + 1
    /\ UNCHANGED constructing

\* The next state is the record r that the call op(layer), made on the
\* thread of the LayerContext, computed.
Becomes(r, op, layer) ==
    /\ Yields(r, op, layer)
    /\ UNCHANGED threads

\* panic!(): unwinding ends the operation with the writes made so far.
Panic(s) == [s EXCEPT !.fault = "panic"]
Running(s) == s.fault = "none"

\* debug_assert!(cond): checked only in a build with debug assertions.
DebugAssert(s, cond) ==
    IF Running(s) /\ s.debug /\ ~cond THEN Panic(s) ELSE s

\* ------------------------------------------------------------- LayerMap
\* A LayerMap<T> is a function from layer ids to Option<T>; an index past the
\* end of the Vec reads as None (get) or panics like None does (Index, take).
NewLayerMap == [id \in LayerIds |-> None]

\* LayerMap::has
has(m, id) == IsSome(m[id])
\* LayerMap::get
get(m, id) == m[id]

\* LayerMap::add without the assertion: the store alone.
add_overwriting(s, f, id, element) ==
    IF ~Running(s) THEN s
    ELSE [s EXCEPT ![f][id] = Some(element)]

\* LayerMap::add on the map s[f]: debug_assert!(is_none), then the store.
add(s, f, id, element) ==
    IF ~Running(s) THEN s
    ELSE IF s.debug /\ has(s[f], id) THEN Panic(s)
    ELSE [s EXCEPT ![f][id] = Some(element)]

\* LayerMap::remove_if_present on the map s[f]
remove_if_present(s, f, id) ==
    IF ~Running(s) THEN s
    ELSE [s EXCEPT ![f][id] = None]

\* LayerMap::take on the map s[f]: debug_assert!(has) and unwrap() both panic
\* on an absent entry, which is left absent.
take(s, f, id) ==
    IF ~Running(s) THEN s
    ELSE IF ~has(s[f], id) THEN Panic(s)
    ELSE [s EXCEPT ![f][id] = None]

\* LayerMap::get_mut_default on the geometry map: an absent entry becomes
\* LayerGeometryInfo::default(), Rect::zero().
get_mut_default(s, id) ==
    IF ~Running(s) \/ has(s.geometry_component, id) THEN s
    ELSE [s EXCEPT !.geometry_component[id] = Some([bounds |-> ZeroRect])]

\* Index / IndexMut (map[id]): unwrap() of an absent entry panics.  The
\* write `map[id].field = value` on the map s[f].
index_mut(s, f, id, field, value) ==
    IF ~Running(s) THEN s
    ELSE IF ~has(s[f], id) THEN Panic(s)
    ELSE [s EXCEPT ![f][id] = Some([Unwrap(@) EXCEPT ![field] = value])]

\* ----------------------------------------------------- TransactionPromise
\* TransactionPromise::then on promise p: push onto on_fulfilled.
then(s, p, k) ==
    [s EXCEPT !.promises[p] = Append(@, k),
              !.registered[k] = Some([promise |-> p, resolved |-> s.resolved[p]])]

\* How often continuation k occurs among the continuations taken.
times_taken(taken, k) == Cardinality({i \in 1..Len(taken) : taken[i] = k})

\* on_fulfilled() for the continuations taken (lib.rs:623): each is called
\* with the connection having presented the frames it has so far.
called_after(s, taken) ==
    [k \in ContIds |->
        IF times_taken(taken, k) > 0 THEN s.connection.present
        ELSE s.presented_before[k]]

\* The continuation screenshot_hosted_layer registers (gl.rs:464-489), run
\* for every read-back among the continuations taken: ReadPixels copies
\* what the default framebuffer holds into the image, and the image promise
\* is resolved with it.
read_back(s, taken) ==
    [k \in ContIds |->
        IF IsSome(s.screenshots[k]) /\ times_taken(taken, k) > 0
        THEN Some([Unwrap(s.screenshots[k]) EXCEPT
                       !.image = Some(s.frame),
                       !.resolved = @ + times_taken(taken, k)])
        ELSE s.screenshots[k]]

\* resolve iterating over the queue in place: nothing is taken out of it.
resolve_in_place(s, p) ==
    IF ~Running(s) THEN s
    ELSE LET taken == s.promises[p]
         IN  [s EXCEPT !.resolved[p] = @ + 1,
                       !.runs = [k \in ContIds |-> @[k] + times_taken(taken, k)],
                       !.presented_before = called_after(s, taken),
                       !.screenshots = read_back(s, taken)]

\* resolve taking the queue and calling nothing of it.
resolve_dropping_the_queue(s, p) ==
    IF ~Running(s) THEN s
    ELSE [s EXCEPT !.promises[p] = << >>,
                   !.resolved[p] = @ + 1]

\* TransactionPromise::resolve on promise p: take the queue, leaving it
\* empty, and invoke every continuation taken, in order.
resolve(s, p) ==
    IF ~Running(s) THEN s
    ELSE LET taken == s.promises[p]
         IN  [s EXCEPT !.promises[p] = << >>,
                       !.resolved[p] = @ + 1,
                       !.runs = [k \in ContIds |-> @[k] + times_taken(taken, k)],
                       !.presented_before = called_after(s, taken),
                       !.screenshots = read_back(s, taken)]

\* ------------------------------------------- gl::Backend (gl.rs), helpers
\* The parent recorded for a layer: LayerContext::parent_of.
parent_of(s, layer) ==
    IF has(s.tree_component, layer)
    THEN Some(Unwrap(s.tree_component[layer]).parent)
    ELSE None

\* Backend::invalidate_layer: translate rect up the parent chain and union
\* it into dirty_rect at the layer whose parent is NativeHost.  The chain is
\* followed by recursion: a layer met twice is a recursion without end.
RECURSIVE invalidate_layer(_, _, _, _)
invalidate_layer(s, layer, rect, visited) ==
    IF ~Running(s) THEN s
    ELSE IF layer \in visited THEN [s EXCEPT !.fault = "stack_overflow"]
    ELSE IF ~has(s.tree_component, layer) THEN s
    ELSE LET tree_info == Unwrap(s.tree_component[layer]) IN
         IF ~IsLayerParent(tree_info.parent)
         THEN [s EXCEPT !.dirty_rect =
                   IF IsNone(@) THEN Some(rect) ELSE Some(Union(rect, Unwrap(@)))]
         ELSE IF ~has(s.geometry_component, layer) THEN Panic(s)
         ELSE LET origin == Unwrap(s.geometry_component[layer]).bounds
              IN  invalidate_layer(s, ParentLayer(tree_info.parent),
                                   Translate(rect, origin.x, origin.y),
                                   visited \cup {layer})

\* What a render pass has done so far: the next depth slot (in units of
\* DEPTH_QUANTUM), the draws issued, and whether the pass stopped.
NewPass == [fault |-> "none", depth |-> 0, draws |-> << >>]

\* Backend::render_layer: one draw of the layer's cached colour texture at
\* origin + bounds.origin, or nothing when the layer has no framebuffer.
render_layer(s, layer, origin, depth, pass, acc) ==
    IF ~has(s.native_component, layer) THEN [acc EXCEPT !.fault = "panic"]
    ELSE IF IsNone(Unwrap(s.native_component[layer]).framebuffer) THEN acc
    ELSE LET bounds == Unwrap(s.geometry_component[layer]).bounds
         IN  [acc EXCEPT !.draws = Append(@,
                 [layer |-> layer, pass |-> pass, depth |-> depth,
                  x |-> origin[1] + bounds.x, y |-> origin[2] + bounds.y,
                  w |-> bounds.w, h |-> bounds.h])]

RECURSIVE render_opaque_layer_subtree(_, _, _, _, _)
RECURSIVE render_opaque_kids(_, _, _, _, _, _)
\* Backend::render_opaque_layer_subtree.  stack holds the containers being
\* recursed into; seen (in the loop below) the kids the while loop has visited.
render_opaque_layer_subtree(s, layer, origin, acc, stack) ==
    IF acc.fault # "none" THEN acc
    ELSE IF layer \in stack THEN [acc EXCEPT !.fault = "stack_overflow"]
    ELSE IF ~has(s.geometry_component, layer) THEN [acc EXCEPT !.fault = "panic"]
    ELSE LET bounds == Unwrap(s.geometry_component[layer]).bounds IN
         IF has(s.container_component, layer)
         THEN render_opaque_kids(s, Unwrap(s.container_component[layer]).first_child,
                                 << origin[1] + bounds.x, origin[2] + bounds.y >>,
                                 acc, stack \cup {layer}, {})
         ELSE LET depth == acc.depth
                  acc1 == [acc EXCEPT !.depth = @ + 1]
              IN  IF ~has(s.surface_component, layer)
                  THEN [acc1 EXCEPT !.fault = "panic"]
                  ELSE IF ~Contains(Unwrap(s.surface_component[layer]).options, OPAQUE)
                  THEN acc1
                  ELSE render_layer(s, layer, origin, depth, "opaque", acc1)

\* The while loop of render_opaque_layer_subtree over first_child/next_sibling.
render_opaque_kids(s, maybe_kid, origin, acc, stack, seen) ==
    IF acc.fault # "none" \/ IsNone(maybe_kid) THEN acc
    ELSE LET kid == Unwrap(maybe_kid) IN
         IF kid \in seen THEN [acc EXCEPT !.fault = "hang"]
         ELSE LET acc1 == render_opaque_layer_subtree(s, kid, origin, acc, stack) IN
              IF acc1.fault # "none" THEN acc1
              ELSE IF ~has(s.tree_component, kid) THEN [acc1 EXCEPT !.fault = "panic"]
              ELSE render_opaque_kids(s, Unwrap(s.tree_component[kid]).next_sibling,
                                      origin, acc1, stack, seen \cup {kid})

RECURSIVE render_transparent_layer_subtree(_, _, _, _, _)
RECURSIVE render_transparent_kids(_, _, _, _, _, _)
\* Backend::render_transparent_layer_subtree
render_transparent_layer_subtree(s, layer, origin, acc, stack) ==
    IF acc.fault # "none" THEN acc
    ELSE IF layer \in stack THEN [acc EXCEPT !.fault = "stack_overflow"]
    ELSE IF ~has(s.geometry_component, layer) THEN [acc EXCEPT !.fault = "panic"]
    ELSE LET bounds == Unwrap(s.geometry_component[layer]).bounds IN
         IF has(s.container_component, layer)
         THEN render_transparent_kids(s, Unwrap(s.container_component[layer]).last_child,
                                      << origin[1] + bounds.x, origin[2] + bounds.y >>,
                                      acc, stack \cup {layer}, {})
         ELSE LET acc1 == [acc EXCEPT !.depth = @ - 1]
                  depth == acc1.depth
              IN  IF ~has(s.surface_component, layer)
                  THEN [acc1 EXCEPT !.fault = "panic"]
                  ELSE IF Contains(Unwrap(s.surface_component[layer]).options, OPAQUE)
                  THEN acc1
                  ELSE render_layer(s, layer, origin, depth, "transparent", acc1)

\* The while loop of render_transparent_layer_subtree over
\* last_child/prev_sibling.
render_transparent_kids(s, maybe_kid, origin, acc, stack, seen) ==
    IF acc.fault # "none" \/ IsNone(maybe_kid) THEN acc
    ELSE LET kid == Unwrap(maybe_kid) IN
         IF kid \in seen THEN [acc EXCEPT !.fault = "hang"]
         ELSE LET acc1 == render_transparent_layer_subtree(s, kid, origin, acc, stack) IN
              IF acc1.fault # "none" THEN acc1
              ELSE IF ~has(s.tree_component, kid) THEN [acc1 EXCEPT !.fault = "panic"]
              ELSE render_transparent_kids(s, Unwrap(s.tree_component[kid]).prev_sibling,
                                           origin, acc1, stack, seen \cup {kid})

\* ------------------------------------------ gl::Backend, the trait's hooks
\* Backend::begin_transaction: make_current(), no state of the model.
backend_begin_transaction(s) ==
    [s EXCEPT !.hooks.begin_transaction = @ + 1]

\* The two passes in the other order: the transparent pass first.
render_passes_transparent_first(s, hosted) ==
    LET transparent == render_transparent_layer_subtree(s, hosted, << 0, 0 >>, NewPass, {})
    IN  render_opaque_layer_subtree(s, hosted, << 0, 0 >>, transparent, {})

\* end_transaction, gl.rs:180-208: the opaque pass from depth 0, then the
\* transparent pass, over the subtree of the hosted layer.
render_passes(s, hosted) ==
    LET opaque == render_opaque_layer_subtree(s, hosted, << 0, 0 >>, NewPass, {})
    IN  render_transparent_layer_subtree(s, hosted, << 0, 0 >>, opaque, {})

\* gl::ClearDepth(1.0), in units of DEPTH_QUANTUM = 1/4096.
CLEAR_DEPTH == 4096

\* The draw covers the point pt of the default framebuffer.
Covers(draw, pt) ==
    /\ draw.x <= pt[1] /\ pt[1] < draw.x + draw.w
    /\ draw.y <= pt[2] /\ pt[2] < draw.y + draw.h

\* One draw at one pixel.  Opaque pass (gl.rs:184-186): DepthFunc(LEQUAL)
\* with the depth test on and blending off, so a draw that passes replaces
\* the colour and the depth; a framebuffer without depth buffer passes every
\* draw.  Transparent pass (gl.rs:197-200): depth test off, blending on, so
\* the draw is blended over what is there.  A colour is the layers blended,
\* bottom first.
draw_pixel(px, draw, pt, depth_buffer) ==
    IF ~Covers(draw, pt) THEN px
    ELSE IF draw.pass = "opaque"
    THEN IF depth_buffer /\ ~(draw.depth <= px.depth) THEN px
         ELSE [depth |-> draw.depth, colour |-> << draw.layer >>]
    ELSE [px EXCEPT !.colour = Append(@, draw.layer)]

\* The pixel at pt after the first n draws, from the cleared depth and the
\* colour the framebuffer had (nothing of this frame).
RECURSIVE pixel_after(_, _, _, _)
pixel_after(draws, n, pt, depth_buffer) ==
    IF n = 0 THEN [depth |-> CLEAR_DEPTH, colour |-> << >>]
    ELSE draw_pixel(pixel_after(draws, n - 1, pt, depth_buffer), draws[n],
                    pt, depth_buffer)

\* The colour at pt of the frame end_transaction renders from s.
ColourAt(s, pt, depth_buffer) ==
    LET draws == render_passes(s, Unwrap(s.hosted_layer)).draws
    IN  pixel_after(draws, Len(draws), pt, depth_buffer).colour

\* end_transaction leaving the promise alone where nothing is dirty.
backend_end_transaction_unresolved_when_clean(s, promise) ==
    LET s0 == [s EXCEPT !.hooks.end_transaction = @ + 1] IN
    IF IsSome(s0.dirty_rect) /\ IsSome(s0.hosted_layer)
    THEN LET hosted == Unwrap(s0.hosted_layer)
             drawing == [s0 EXCEPT !.connection.prepare_to_draw = @ + 1]
             both == render_passes(drawing, hosted)
         IN  IF both.fault # "none" THEN [drawing EXCEPT !.fault = both.fault]
             ELSE LET s1 == [drawing EXCEPT !.dirty_rect = None, !.frame = both.draws]
                      s2 == resolve(s1, promise)
                  IN  [s2 EXCEPT !.connection.present = @ + 1]
    ELSE IF IsSome(s0.dirty_rect)
    THEN resolve([s0 EXCEPT !.dirty_rect = None], promise)
    ELSE s0

\* end_transaction drawing and presenting whenever a layer is hosted.
backend_end_transaction_drawing_when_clean(s, promise) ==
    LET s0 == [s EXCEPT !.hooks.end_transaction = @ + 1] IN
    IF IsSome(s0.hosted_layer)
    THEN LET hosted == Unwrap(s0.hosted_layer)
             drawing == [s0 EXCEPT !.connection.prepare_to_draw = @ + 1]
             both == render_passes(drawing, hosted)
         IN  IF both.fault # "none" THEN [drawing EXCEPT !.fault = both.fault]
             ELSE LET s1 == [drawing EXCEPT !.dirty_rect = None, !.frame = both.draws]
                      s2 == resolve(s1, promise)
                  IN  [s2 EXCEPT !.connection.present = @ + 1]
    ELSE IF IsSome(s0.dirty_rect)
    THEN resolve([s0 EXCEPT !.dirty_rect = None], promise)
    ELSE resolve(s0, promise)

\* end_transaction resolving the promise before it renders the frame.
backend_end_transaction_resolving_first(s, promise) ==
    LET s0 == [s EXCEPT !.hooks.end_transaction = @ + 1] IN
    IF IsSome(s0.dirty_rect) /\ IsSome(s0.hosted_layer)
    THEN LET hosted == Unwrap(s0.hosted_layer)
             drawing == [s0 EXCEPT !.connection.prepare_to_draw = @ + 1]
             both == render_passes(drawing, hosted)
         IN  IF both.fault # "none" THEN [drawing EXCEPT !.fault = both.fault]
             ELSE LET s1 == resolve([drawing EXCEPT !.dirty_rect = None], promise)
                      s2 == [s1 EXCEPT !.frame = both.draws]
                  IN  [s2 EXCEPT !.connection.present = @ + 1]
    ELSE IF IsSome(s0.dirty_rect)
    THEN resolve([s0 EXCEPT !.dirty_rect = None], promise)
    ELSE resolve(s0, promise)

\* Backend::end_transaction on the transaction's promise: both passes are
\* drawn into the default framebuffer (gl.rs:188-208) before the promise is
\* resolved (gl.rs:215).
backend_end_transaction(s, promise) ==
    LET s0 == [s EXCEPT !.hooks.end_transaction = @ + 1] IN
    IF IsSome(s0.dirty_rect) /\ IsSome(s0.hosted_layer)
    THEN LET hosted == Unwrap(s0.hosted_layer)
             drawing == [s0 EXCEPT !.connection.prepare_to_draw = @ + 1]
             both == render_passes(drawing, hosted)
         IN  IF both.fault # "none" THEN [drawing EXCEPT !.fault = both.fault]
             ELSE LET s1 == [drawing EXCEPT !.dirty_rect = None, !.frame = both.draws]
                      s2 == resolve(s1, promise)
                  IN  [s2 EXCEPT !.connection.present = @ + 1]
    ELSE IF IsSome(s0.dirty_rect)
    THEN resolve([s0 EXCEPT !.dirty_rect = None], promise)
    ELSE resolve(s0, promise)

\* Backend::screenshot_hosted_layer, the loop of gl.rs:450-456: the bounds
\* of the layer moved by the origin of the layer and of each ancestor.  A
\* layer without geometry panics at the index; a chain that comes back to a
\* layer is a loop without end.
RECURSIVE screenshot_bounds(_, _, _, _)
screenshot_bounds(s, layer, bounds, visited) ==
    IF layer \in visited THEN [fault |-> "hang", bounds |-> bounds]
    ELSE IF ~has(s.geometry_component, layer) THEN [fault |-> "panic", bounds |-> bounds]
    ELSE LET origin == Unwrap(s.geometry_component[layer]).bounds
             moved == Translate(bounds, origin.x, origin.y)
             parent == parent_of(s, layer)
         IN  IF IsSome(parent) /\ IsLayerParent(Unwrap(parent))
             THEN screenshot_bounds(s, ParentLayer(Unwrap(parent)), moved,
                                    visited \cup {layer})
             ELSE [fault |-> "none", bounds |-> moved]

\* Backend::screenshot_hosted_layer: a new image promise, the bounds to read,
\* and the read-back k registered on render_promise with then().
backend_screenshot_hosted_layer(s, root_layer, render_promise, k) ==
    IF ~Running(s) THEN s
    ELSE IF ~has(s.geometry_component, root_layer) THEN Panic(s)
    ELSE LET size == Unwrap(s.geometry_component[root_layer]).bounds
             walk == screenshot_bounds(s, root_layer, Rect(0, 0, size.w, size.h), {})
         IN  IF walk.fault # "none" THEN [s EXCEPT !.fault = walk.fault]
             ELSE then([s EXCEPT !.screenshots[k] =
                            Some([layer |-> root_layer, bounds |-> walk.bounds,
                                  image |-> None, resolved |-> 0])],
                       render_promise, k)

\* Backend::add_surface_layer (add_container_layer does nothing)
backend_add_surface_layer(s, layer) ==
    add(s, "native_component", layer, [framebuffer |-> None])

\* Backend::delete_layer: release the framebuffer's GL objects, drop the entry.
backend_delete_layer(s, layer) ==
    IF ~Running(s) THEN s
    ELSE
    LET cached == has(s.native_component, layer)
                  /\ IsSome(Unwrap(s.native_component[layer]).framebuffer)
        s1 == IF ~cached THEN s
              ELSE LET framebuffer == Unwrap(Unwrap(s.native_component[layer]).framebuffer)
                   IN  [s EXCEPT
                          !.gl_objects[layer].deleted.framebuffers = @ + 1,
                          !.gl_objects[layer].deleted.renderbuffers =
                              IF framebuffer.depth_stencil_renderbuffer THEN @ + 1 ELSE @,
                          !.gl_objects[layer].deleted.textures = @ + 1]
    IN  remove_if_present(s1, "native_component", layer)

\* Backend::insert_before
backend_insert_before(s, new_child) ==
    IF ~Running(s) THEN s
    ELSE IF ~has(s.geometry_component, new_child) THEN Panic(s)
    ELSE LET bounds == Unwrap(s.geometry_component[new_child]).bounds
         IN  invalidate_layer(s, new_child, Rect(0, 0, bounds.w, bounds.h), {})

\* Backend::remove_from_superlayer
backend_remove_from_superlayer(s, old_child, parent) ==
    IF ~Running(s) THEN s
    ELSE IF ~has(s.geometry_component, old_child) THEN Panic(s)
    ELSE invalidate_layer(s, parent, Unwrap(s.geometry_component[old_child]).bounds, {})

\* Backend::host_layer
backend_host_layer(s, layer) ==
    LET s1 == DebugAssert(s, IsNone(s.hosted_layer))
    IN  IF ~Running(s1) THEN s1 ELSE [s1 EXCEPT !.hosted_layer = Some(layer)]

\* Backend::unhost_layer
backend_unhost_layer(s, layer) ==
    LET s1 == DebugAssert(s, s.hosted_layer = Some(layer))
    IN  IF ~Running(s1) THEN s1 ELSE [s1 EXCEPT !.hosted_layer = None]

\* Backend::set_layer_bounds
backend_set_layer_bounds(s, layer, old_bounds) ==
    IF ~Running(s) THEN s
    ELSE
    LET par == parent_of(s, layer)
        s1 == IF IsSome(par) /\ IsLayerParent(Unwrap(par))
              THEN invalidate_layer(s, ParentLayer(Unwrap(par)), old_bounds, {})
              ELSE s
    IN  IF ~Running(s1) THEN s1
        ELSE IF ~has(s1.geometry_component, layer) THEN Panic(s1)
        ELSE
        LET new == Unwrap(s1.geometry_component[layer]).bounds
            stale == /\ has(s1.native_component, layer)
                     /\ IsSome(Unwrap(s1.native_component[layer]).framebuffer)
                     /\ Unwrap(Unwrap(s1.native_component[layer]).framebuffer).size
                            # RoundSize(new)
            s2 == IF stale
                  THEN [s1 EXCEPT !.native_component[layer] = Some([framebuffer |-> None]),
                                  !.gl_objects[layer].deleted.framebuffers = @ + 1]
                  ELSE s1
        IN  invalidate_layer(s2, layer, Rect(0, 0, new.w, new.h), {})

\* Backend::bind_layer_to_gl_context
backend_bind_layer_to_gl_context(s, layer) ==
    IF ~Running(s) THEN s
    ELSE IF ~has(s.native_component, layer) THEN Panic(s)
    ELSE IF IsSome(Unwrap(s.native_component[layer]).framebuffer) THEN s
    ELSE IF ~has(s.geometry_component, layer) THEN Panic(s)
    ELSE IF ~has(s.surface_component, layer) THEN Panic(s)
    ELSE LET options == Unwrap(s.surface_component[layer]).options
             framebuffer ==
                 [size |-> RoundOutSize(Unwrap(s.geometry_component[layer]).bounds),
                  surface_options |-> options,
                  depth_stencil_renderbuffer |-> IntersectsDepthStencil(options)]
         IN  [s EXCEPT !.native_component[layer] =
                           Some([framebuffer |-> Some(framebuffer)]),
                       !.gl_objects[layer].generated.textures = @ + 1,
                       !.gl_objects[layer].generated.renderbuffers =
                           IF IntersectsDepthStencil(options) THEN @ + 1 ELSE @,
                       !.gl_objects[layer].generated.framebuffers = @ + 1]

\* Backend::present_gl_context
backend_present_gl_context(s, layer, changed_rect) ==
    invalidate_layer(s, layer, changed_rect, {})

\* ------------------------------------------------- LayerContext (lib.rs)
\* LayerContext::in_transaction
in_transaction(s) == IsSome(s.transaction)

\* begin_transaction telling the backend of every begin, nested ones too.
begin_transaction_every_level(s) ==
    IF IsNone(s.transaction)
    THEN backend_begin_transaction(
             [s EXCEPT !.transaction = Some([level |-> 1, promise |-> s.next_promise]),
                       !.next_promise = @ + 1])
    ELSE backend_begin_transaction(
             [s EXCEPT !.transaction = Some([Unwrap(@) EXCEPT !.level = @ + 1])])

\* LayerContext::begin_transaction
begin_transaction(s) ==
    IF IsNone(s.transaction)
    THEN backend_begin_transaction(
             [s EXCEPT !.transaction = Some([level |-> 1, promise |-> s.next_promise]),
                       !.next_promise = @ + 1])
    ELSE [s EXCEPT !.transaction = Some([Unwrap(@) EXCEPT !.level = @ + 1])]

\* end_transaction that is done with the transaction one level early
\* (`level > 1` for `level > 0`).
end_transaction_one_early(s) ==
    IF IsNone(s.transaction) THEN Panic(s)
    ELSE LET info == [Unwrap(s.transaction) EXCEPT !.level = @ - 1] IN
         IF info.level > 1
         THEN [s EXCEPT !.transaction = Some(info),
                        !.returned = @ \cup {info.promise}]
         ELSE LET s1 == backend_end_transaction([s EXCEPT !.transaction = None],
                                                info.promise)
              IN  IF ~Running(s1) THEN s1
                  ELSE [s1 EXCEPT !.returned = @ \cup {info.promise}]

\* LayerContext::end_transaction; the promise it returns joins s.returned.
end_transaction(s) ==
    IF IsNone(s.transaction) THEN Panic(s)
    ELSE LET info == [Unwrap(s.transaction) EXCEPT !.level = @ - 1] IN
         IF info.level > 0
         THEN [s EXCEPT !.transaction = Some(info),
                        !.returned = @ \cup {info.promise}]
         ELSE LET s1 == backend_end_transaction([s EXCEPT !.transaction = None],
                                                info.promise)
              IN  IF ~Running(s1) THEN s1
                  ELSE [s1 EXCEPT !.returned = @ \cup {info.promise}]

\* self.next_layer_id.0 += 1 on a u32 (lib.rs:348, 362).  Past the last
\* value the addition panics where overflow checks are compiled in, as they
\* are by default together with the debug assertions, and wraps to 0 where
\* they are not.
increment_next_layer_id(s) ==
    IF ~Running(s) THEN s
    ELSE IF s.next_layer_id # U32Max
    THEN [s EXCEPT !.next_layer_id = U32Succ(@)]
    ELSE IF s.debug THEN Panic(s)
    ELSE [s EXCEPT !.next_layer_id = 0]

\* add_container_layer taking the id before it checks for a transaction.
add_container_layer_id_first(s) ==
    LET layer == s.next_layer_id
        s1 == increment_next_layer_id(s)
        s2 == DebugAssert(s1, in_transaction(s1))
    IN  add(s2, "container_component", layer,
            [first_child |-> None, last_child |-> None])

\* LayerContext::add_container_layer
add_container_layer(s) ==
    LET s1 == DebugAssert(s, in_transaction(s))
        layer == s.next_layer_id
        s2 == increment_next_layer_id(s1)
    IN  add(s2, "container_component", layer,
            [first_child |-> None, last_child |-> None])

\* LayerContext::add_surface_layer
add_surface_layer(s) ==
    LET s1 == DebugAssert(s, in_transaction(s))
        layer == s.next_layer_id
        s2 == increment_next_layer_id(s1)
        s3 == add(s2, "surface_component", layer, [options |-> EmptyOptions])
    IN  backend_add_surface_layer(s3, layer)

\* insert_before, lib.rs:386-389: the new child's prev_sibling.
new_prev_sibling(s, parent, reference) ==
    IF IsSome(reference)
    THEN Unwrap(s.tree_component[Unwrap(reference)]).prev_sibling
    ELSE Unwrap(s.container_component[parent]).last_child

\* insert_before, lib.rs:397-400: link the new child in on its next side.
link_next(s, parent, new_child, reference) ==
    IF IsSome(reference)
    THEN index_mut(s, "tree_component", Unwrap(reference),
                   "next_sibling", Some(new_child))
    ELSE index_mut(s, "container_component", parent,
                   "last_child", Some(new_child))

\* insert_before, lib.rs:402-404: a child without prev_sibling is the first.
link_first(s, parent, new_child) ==
    IF ~Running(s) THEN s
    ELSE IF ~has(s.tree_component, new_child) THEN Panic(s)
    ELSE IF IsSome(Unwrap(s.tree_component[new_child]).prev_sibling) THEN s
    ELSE index_mut(s, "container_component", parent,
                   "first_child", Some(new_child))

\* insert_before without the assertion that the reference is a child of
\* parent.
insert_before_unchecked_reference(s, parent, new_child, reference) ==
    LET s2 == DebugAssert(s, in_transaction(s))
        present == IF IsSome(reference)
                   THEN has(s2.tree_component, Unwrap(reference))
                   ELSE has(s2.container_component, parent)
    IN  IF ~Running(s2) THEN s2
        ELSE IF ~present THEN Panic(s2)
        ELSE
        LET s3 == add(s2, "tree_component", new_child,
                      [parent |-> Layer(parent),
                       prev_sibling |-> new_prev_sibling(s2, parent, reference),
                       next_sibling |-> reference])
            s4 == link_next(s3, parent, new_child, reference)
            s5 == link_first(s4, parent, new_child)
        IN  backend_insert_before(s5, new_child)

\* LayerContext::insert_before; reference is an Option<LayerId>.
insert_before(s, parent, new_child, reference) ==
    LET s1 == DebugAssert(s, in_transaction(s))
        s2 == IF IsSome(reference)
              THEN DebugAssert(s1, parent_of(s1, Unwrap(reference)) = Some(Layer(parent)))
              ELSE s1
        present == IF IsSome(reference)
                   THEN has(s2.tree_component, Unwrap(reference))
                   ELSE has(s2.container_component, parent)
    IN  IF ~Running(s2) THEN s2
        ELSE IF ~present THEN Panic(s2)
        ELSE
        LET s3 == add(s2, "tree_component", new_child,
                      [parent |-> Layer(parent),
                       prev_sibling |-> new_prev_sibling(s2, parent, reference),
                       next_sibling |-> reference])
            s4 == link_next(s3, parent, new_child, reference)
            s5 == link_first(s4, parent, new_child)
        IN  backend_insert_before(s5, new_child)

\* LayerContext::append_child
append_child(s, parent, new_child) == insert_before(s, parent, new_child, None)

\* LayerContext::host_layer (and host_layer_in_window)
host_layer(s, layer) ==
    LET s1 == DebugAssert(s, in_transaction(s))
        s2 == add(s1, "tree_component", layer,
                  [parent |-> NativeHost, prev_sibling |-> None, next_sibling |-> None])
    IN  backend_host_layer(s2, layer)

\* remove_from_parent, lib.rs:449-464: splice old_tree out of its siblings.
unlink(s, parent_layer, old_tree) ==
    LET s1 == IF IsNone(old_tree.prev_sibling)
              THEN index_mut(s, "container_component", parent_layer,
                       "first_child", old_tree.next_sibling)
              ELSE index_mut(s, "tree_component", Unwrap(old_tree.prev_sibling),
                       "next_sibling", old_tree.next_sibling)
    IN  IF IsNone(old_tree.next_sibling)
        THEN index_mut(s1, "container_component", parent_layer,
                 "last_child", old_tree.prev_sibling)
        ELSE index_mut(s1, "tree_component", Unwrap(old_tree.next_sibling),
                 "prev_sibling", old_tree.prev_sibling)

\* LayerContext::remove_from_parent
remove_from_parent(s, old_child) ==
    LET s1 == DebugAssert(s, in_transaction(s))
        s2 == take(s1, "tree_component", old_child)
    IN  IF ~Running(s2) THEN s2
        ELSE LET old_tree == Unwrap(s1.tree_component[old_child]) IN
             IF ~IsLayerParent(old_tree.parent)
             THEN backend_unhost_layer(s2, old_child)
             ELSE unlink(backend_remove_from_superlayer(s2, old_child,
                                                        ParentLayer(old_tree.parent)),
                         ParentLayer(old_tree.parent), old_tree)

\* delete_layer without the assertion that the layer has no parent.
delete_layer_unchecked(s, layer) ==
    LET s1 == DebugAssert(s, in_transaction(s))
        s3 == remove_if_present(s1, "tree_component", layer)
        s4 == remove_if_present(s3, "container_component", layer)
        s5 == remove_if_present(s4, "geometry_component", layer)
        s6 == remove_if_present(s5, "surface_component", layer)
    IN  backend_delete_layer(s6, layer)

\* LayerContext::delete_layer
delete_layer(s, layer) ==
    LET s1 == DebugAssert(s, in_transaction(s))
        s2 == DebugAssert(s1, IsNone(parent_of(s1, layer)))
        s3 == remove_if_present(s2, "tree_component", layer)
        s4 == remove_if_present(s3, "container_component", layer)
        s5 == remove_if_present(s4, "geometry_component", layer)
        s6 == remove_if_present(s5, "surface_component", layer)
    IN  backend_delete_layer(s6, layer)

\* LayerContext::layer_bounds, the value returned inside a transaction: the
\* bounds stored for the layer, the zero rectangle when none were stored.
layer_bounds(s, layer) ==
    IF has(s.geometry_component, layer)
    THEN Unwrap(s.geometry_component[layer]).bounds
    ELSE ZeroRect

\* LayerContext::set_layer_bounds
set_layer_bounds(s, layer, new_bounds) ==
    LET s1 == DebugAssert(s, in_transaction(s))
        s2 == get_mut_default(s1, layer)
    IN  IF ~Running(s2) THEN s2
        ELSE LET old_bounds == Unwrap(s2.geometry_component[layer]).bounds
                 s3 == [s2 EXCEPT !.geometry_component[layer] =
                                      Some([bounds |-> new_bounds])]
             IN  backend_set_layer_bounds(s3, layer, old_bounds)

\* set_layer_surface_options storing through get_mut_default-like access: the
\* entry is created when the layer has none.
set_layer_surface_options_creating(s, layer, surface_options) ==
    LET s1 == DebugAssert(s, in_transaction(s))
    IN  IF ~Running(s1) THEN s1
        ELSE [s1 EXCEPT !.surface_component[layer] = Some([options |-> surface_options])]

\* LayerContext::set_layer_surface_options (the backend hook does nothing)
set_layer_surface_options(s, layer, surface_options) ==
    LET s1 == DebugAssert(s, in_transaction(s))
    IN  index_mut(s1, "surface_component", layer,
                  "options", surface_options)

\* LayerContext::bind_layer_to_gl_context
bind_layer_to_gl_context(s, layer) ==
    LET s1 == DebugAssert(s, in_transaction(s))
        s2 == DebugAssert(s1, ~has(s1.container_component, layer))
    IN  backend_bind_layer_to_gl_context(s2, layer)

\* LayerContext::present_gl_context of a binding of the layer
present_gl_context(s, layer, changed_rect) ==
    LET s1 == DebugAssert(s, in_transaction(s))
    IN  backend_present_gl_context(s1, layer, changed_rect)

\* LayerContext::screenshot_hosted_layer as examples/screenshot.rs:66 calls
\* it, inside the transaction whose frame the image is to show: the layer
\* must be the hosted one (lib.rs:544), and the backend is handed the
\* promise of the open transaction (gl.rs:440).
screenshot_hosted_layer(s, layer, k) ==
    IF ~Running(s) THEN s
    ELSE IF ~has(s.tree_component, layer) THEN Panic(s)
    ELSE IF Unwrap(s.tree_component[layer]).parent # NativeHost THEN Panic(s)
    ELSE backend_screenshot_hosted_layer(s, layer, Unwrap(s.transaction).promise, k)

\* ------------------------------------------------------------- actions

\* A thread that is in neither then() nor resolve().
IdleThread == [pc |-> "idle", promise |-> 0, taken |-> << >>]

\* The Mutex of promise p is held: a thread is inside then() or resolve() on
\* p, between lock() and the drop of the guard.
locked(p) ==
    \/ threads.registrar.pc # "idle" /\ threads.registrar.promise = p
    \/ threads.resolver.pc # "idle" /\ threads.resolver.promise = p

\* LayerContext::with_backend_connection over a fresh gl::Backend.
Init ==
    /\ debug_assertions \in BOOLEAN
    /\ next_layer_id = 0
    /\ transaction = None
    /\ tree_component = NewLayerMap
    /\ container_component = NewLayerMap
    /\ geometry_component = NewLayerMap
    /\ surface_component = NewLayerMap
    /\ native_component = NewLayerMap
    /\ hosted_layer = None
    /\ dirty_rect = None
    /\ promises = [p \in PromiseIds |-> << >>]
    /\ next_promise = 0
    /\ returned = {}
    /\ runs = [k \in ContIds |-> 0]
    /\ next_cont = 0
    /\ resolved = [p \in PromiseIds |-> 0]
    /\ registered = [k \in ContIds |-> None]
    /\ hooks = [begin_transaction |-> 0, end_transaction |-> 0]
    /\ calls = [begin |-> 0, end |-> 0]
    /\ created = [id \in LayerIds |-> "no"]
    /\ fault = NoFault
    /\ ncalls = 0
    /\ threads = [registrar |-> IdleThread, resolver |-> IdleThread]
    /\ constructing = None
    /\ frame = << >>
    /\ screenshots = [k \in ContIds |-> None]
    /\ gl_interface = NewConnection
    /\ presented_before = [k \in ContIds |-> 0]
    /\ gl_objects = NoObjects(LayerIds)

\* The layer ids the caller passes: those add_container_layer and
\* add_surface_layer have returned so far, deleted or not.
Allocated == {l \in DOMAIN created : created[l] # "no"}

\* The program is running and may be called once more.
Ready == fault = NoFault /\ ncalls < MaxCalls

BeginTransaction ==
    /\ Ready
    /\ IF IsNone(transaction)
       THEN next_promise < MaxTransactions
       ELSE calls.begin < MaxBegins
    /\ Becomes(begin_transaction(State), "begin_transaction", NoLayer)
    /\ calls' = IF IsNone(transaction)
                THEN [begin |-> 1, end |-> 0]
                ELSE [calls EXCEPT !.begin = @ + 1]
    /\ UNCHANGED << next_cont, created >>

EndTransaction ==
    /\ Ready
    /\ Becomes(end_transaction(State), "end_transaction", NoLayer)
    /\ calls' = [calls EXCEPT !.end = @ + 1]
    /\ UNCHANGED << next_cont, created >>

AddContainerLayer ==
    /\ Ready
    /\ next_layer_id \in DOMAIN created
    /\ Becomes(add_container_layer(State), "add_container_layer", next_layer_id)
    /\ created' = IF Running(add_container_layer(State))
                  THEN [created EXCEPT ![next_layer_id] = "container"]
                  ELSE created
    /\ UNCHANGED << next_cont, calls >>

AddSurfaceLayer ==
    /\ Ready
    /\ next_layer_id \in DOMAIN created
    /\ Becomes(add_surface_layer(State), "add_surface_layer", next_layer_id)
    /\ created' = IF Running(add_surface_layer(State))
                  THEN [created EXCEPT ![next_layer_id] = "surface"]
                  ELSE created
    /\ UNCHANGED << next_cont, calls >>

InsertBefore ==
    /\ Ready
    /\ \E parent \in Allocated, new_child \in Allocated, reference \in Allocated :
          Becomes(insert_before(State, parent, new_child, Some(reference)),
                  "insert_before", new_child)
    /\ UNCHANGED << next_cont, calls, created >>

AppendChild ==
    /\ Ready
    /\ \E parent \in Allocated, new_child \in Allocated :
          /\ Becomes(append_child(State, parent, new_child), "append_child", new_child)
    /\ UNCHANGED << next_cont, calls, created >>

HostLayer ==
    /\ Ready
    /\ \E layer \in Allocated :
          /\ Becomes(host_layer(State, layer), "host_layer", layer)
    /\ UNCHANGED << next_cont, calls, created >>

RemoveFromParent ==
    /\ Ready
    /\ \E old_child \in Allocated :
          Becomes(remove_from_parent(State, old_child),
                  "remove_from_parent", old_child)
    /\ UNCHANGED << next_cont, calls, created >>

DeleteLayer ==
    /\ Ready
    /\ \E layer \in Allocated :
          /\ Becomes(delete_layer(State, layer), "delete_layer", layer)
          /\ created' = IF Running(delete_layer(State, layer))
                        THEN [created EXCEPT ![layer] = "deleted"]
                        ELSE created
    /\ UNCHANGED << next_cont, calls >>

SetLayerBounds(rects) ==
    /\ Ready
    /\ \E layer \in Allocated, new_bounds \in rects :
          Becomes(set_layer_bounds(State, layer, new_bounds),
                  "set_layer_bounds", layer)
    /\ UNCHANGED << next_cont, calls, created >>

SetLayerSurfaceOptions(options) ==
    /\ Ready
    /\ \E layer \in Allocated, surface_options \in options :
          Becomes(set_layer_surface_options(State, layer, surface_options),
                  "set_layer_surface_options", layer)
    /\ UNCHANGED << next_cont, calls, created >>

BindLayerToGLContext ==
    /\ Ready
    /\ \E layer \in Allocated :
          Becomes(bind_layer_to_gl_context(State, layer),
                  "bind_layer_to_gl_context", layer)
    /\ UNCHANGED << next_cont, calls, created >>

PresentGLContext(rects) ==
    /\ Ready
    /\ \E layer \in Allocated, changed_rect \in rects :
          Becomes(present_gl_context(State, layer, changed_rect),
                  "present_gl_context", layer)
    /\ UNCHANGED << next_cont, calls, created >>

\* The caller registers a new continuation on a promise end_transaction
\* returned to it.
PromiseThen ==
    /\ Ready
    /\ next_cont < MaxConts
    /\ \E p \in returned :
          Becomes(then(State, p, next_cont), "then", NoLayer)
    /\ next_cont' = next_cont + 1
    /\ UNCHANGED << calls, created >>

\* TransactionPromise::resolve applied to a promise created so far.  The
\* function is private to the crate; a backend holds the promise of the open
\* transaction (screenshot_hosted_layer, end_transaction) and its clones.
PromiseResolve ==
    /\ Ready
    /\ \E p \in 0..(next_promise - 1) :
          /\ resolved[p] < MaxResolves
          /\ Becomes(resolve(State, p), "resolve", NoLayer)
    /\ UNCHANGED << next_cont, calls, created >>

\* The layer tree and the transactions: every layer-mutating operation of
\* LayerContext, over the layers handed out so far.
Next ==
    \/ BeginTransaction
    \/ EndTransaction
    \/ AddContainerLayer
    \/ AddSurfaceLayer
    \/ InsertBefore
    \/ AppendChild
    \/ HostLayer
    \/ RemoveFromParent
    \/ DeleteLayer
    \/ SetLayerBounds(TreeRects)
    \/ SetLayerSurfaceOptions(TreeOptions)

Spec == Init /\ [][Next]_vars

\* The transactions and their promises: the caller registers continuations on
\* the promises end_transaction returned, and promises are resolved again.
NextPromise ==
    \/ BeginTransaction
    \/ EndTransaction
    \/ PromiseThen
    \/ PromiseResolve

SpecPromise == Init /\ [][NextPromise]_vars

\* ------------------------------------------------ the id counter at its end
\* The ids around the end of the counter: the last two values and the first
\* MaxLayers.
WrapIds == LayerIds \cup {U32Max - 1, U32Max}

NewWrapMap == [id \in WrapIds |-> None]

\* The context after begin_transaction(), u32::MAX - 1 times
\* l = add_container_layer(); delete_layer(l), and end_transaction(): every
\* id below u32::MAX - 1 has been handed out and deleted, no component is
\* left, the one promise is resolved.
InitIds ==
    /\ debug_assertions \in BOOLEAN
    /\ next_layer_id = U32Max - 1
    /\ transaction = None
    /\ tree_component = NewWrapMap
    /\ container_component = NewWrapMap
    /\ geometry_component = NewWrapMap
    /\ surface_component = NewWrapMap
    /\ native_component = NewWrapMap
    /\ hosted_layer = None
    /\ dirty_rect = None
    /\ promises = [p \in PromiseIds |-> << >>]
    /\ next_promise = 1
    /\ returned = {0}
    /\ runs = [k \in ContIds |-> 0]
    /\ next_cont = 0
    /\ resolved = [p \in PromiseIds |-> IF p = 0 THEN 1 ELSE 0]
    /\ registered = [k \in ContIds |-> None]
    /\ hooks = [begin_transaction |-> 1, end_transaction |-> 1]
    /\ calls = [begin |-> 1, end |-> 1]
    /\ created = [id \in WrapIds |->
                     IF U32Less(id, U32Max - 1) THEN "deleted" ELSE "no"]
    /\ fault = NoFault
    /\ ncalls = 0
    /\ threads = [registrar |-> IdleThread, resolver |-> IdleThread]
    /\ constructing = None
    /\ frame = << >>
    /\ screenshots = [k \in ContIds |-> None]
    /\ gl_interface = NewConnection
    /\ presented_before = [k \in ContIds |-> 0]
    /\ gl_objects = NoObjects(WrapIds)

NextIds ==
    \/ BeginTransaction
    \/ EndTransaction
    \/ AddContainerLayer
    \/ AddSurfaceLayer
    \/ DeleteLayer

SpecIds == InitIds /\ [][NextIds]_vars

\* ------------------------------------------------------ a scene to commit
SceneIds == 0..(SceneLayers - 1)
SceneRoot == 0
SceneSurfaces == SceneIds \ {SceneRoot}

\* The bounds of the root and of the surfaces, in half pixels: surface 1 at
\* (0,0) and surface 2 at (50,50), 100 by 100 pixels each; the others at
\* (25,25), of the same size.
SceneFrame == Rect(0, 0, 400, 400)
SceneBounds(l) ==
    IF l = 1 THEN Rect(0, 0, 200, 200)
    ELSE IF l = 2 THEN Rect(100, 100, 200, 200)
    ELSE Rect(50, 50, 200, 200)

\* The rectangles presented as changed, zero-sized ones at two origins
\* among them.
SceneRects ==
    {ZeroRect, Rect(20, 20, 0, 0), Rect(0, 0, 20, 20), Rect(40, 40, 20, 20)}

SceneOptions == {EmptyOptions, OPAQUE}

\* LayerContext::with_backend_connection as a record: no layer, no
\* transaction, no promise.
NewContext(debug, ids) ==
    [ debug |-> debug,
      next_layer_id |-> 0,
      transaction |-> None,
      tree_component |-> [id \in ids |-> None],
      container_component |-> [id \in ids |-> None],
      geometry_component |-> [id \in ids |-> None],
      surface_component |-> [id \in ids |-> None],
      native_component |-> [id \in ids |-> None],
      hosted_layer |-> None,
      dirty_rect |-> None,
      promises |-> [p \in PromiseIds |-> << >>],
      next_promise |-> 0,
      returned |-> {},
      runs |-> [k \in ContIds |-> 0],
      hooks |-> [begin_transaction |-> 0, end_transaction |-> 0],
      resolved |-> [p \in PromiseIds |-> 0],
      registered |-> [k \in ContIds |-> None],
      frame |-> << >>,
      screenshots |-> [k \in ContIds |-> None],
      connection |-> NewConnection,
      presented_before |-> [k \in ContIds |-> 0],
      gl_objects |-> NoObjects(ids),
      fault |-> "none" ]

\* One surface of the scene: l = add_surface_layer();
\* set_layer_bounds(l, ..); set_layer_surface_options(l, ..);
\* bind_layer_to_gl_context(l, ..), which gives l its framebuffer.
SceneSurface(s, l, surface_options) ==
    LET s1 == add_surface_layer(s)
        s2 == set_layer_bounds(s1, l, SceneBounds(l))
        s3 == set_layer_surface_options(s2, l, surface_options)
    IN  bind_layer_to_gl_context(s3, l)

\* The first n surfaces of the scene, one after the other.
RECURSIVE SceneWithSurfaces(_, _, _)
SceneWithSurfaces(s, n, options) ==
    IF n = 0 THEN s
    ELSE CHOOSE r \in {SceneSurface(before, n, options[n]) :
                           before \in {SceneWithSurfaces(s, n - 1, options)}} : TRUE

\* begin_transaction(); root = add_container_layer(); host_layer(root);
\* set_layer_bounds(root, ..); then the surfaces.  Nothing is in the tree
\* but the root, and the transaction is open.
SceneStart(debug, options) ==
    LET s0 == begin_transaction(NewContext(debug, SceneIds))
        s1 == add_container_layer(s0)
        s2 == host_layer(s1, SceneRoot)
        s3 == set_layer_bounds(s2, SceneRoot, SceneFrame)
    IN  CHOOSE r \in {SceneWithSurfaces(root, SceneLayers - 1, options) :
                           root \in {s3}} : TRUE

\* The variables of the program are the record r.
StartsAs(r) ==
    /\ debug_assertions = r.debug
    /\ next_layer_id = r.next_layer_id
    /\ transaction = r.transaction
    /\ tree_component = r.tree_component
    /\ container_component = r.container_component
    /\ geometry_component = r.geometry_component
    /\ surface_component = r.surface_component
    /\ native_component = r.native_component
    /\ hosted_layer = r.hosted_layer
    /\ dirty_rect = r.dirty_rect
    /\ promises = r.promises
    /\ next_promise = r.next_promise
    /\ returned = r.returned
    /\ runs = r.runs
    /\ hooks = r.hooks
    /\ resolved = r.resolved
    /\ registered = r.registered
    /\ frame = r.frame
    /\ screenshots = r.screenshots
    /\ gl_interface = r.connection
    /\ presented_before = r.presented_before
    /\ gl_objects = r.gl_objects
    /\ fault = NoFault

InitScene ==
    /\ \E debug \in BOOLEAN, options \in [SceneSurfaces -> SceneOptions] :
          \E r \in {SceneStart(debug, options)} : StartsAs(r)
    /\ next_cont = 0
    /\ calls = [begin |-> 1, end |-> 0]
    /\ created = [id \in SceneIds |->
                     IF id = SceneRoot THEN "container" ELSE "surface"]
    /\ ncalls = MaxCalls - SceneCalls
    /\ threads = [registrar |-> IdleThread, resolver |-> IdleThread]
    /\ constructing = None

NextScene ==
    \/ AppendChild
    \/ RemoveFromParent
    \/ PresentGLContext(SceneRects)
    \/ BeginTransaction
    \/ EndTransaction

SpecScene == InitScene /\ [][NextScene]_vars

\* insert_before(root, new_child, Some(reference)) over the surfaces of the
\* scene.
SceneInsertBefore ==
    /\ Ready
    /\ \E new_child \in SceneSurfaces, reference \in SceneSurfaces :
          Becomes(insert_before(State, SceneRoot, new_child, Some(reference)),
                  "insert_before", new_child)
    /\ UNCHANGED << next_cont, calls, created >>

\* The scene with children inserted before a sibling as well as appended.
NextSceneTree ==
    \/ SceneInsertBefore
    \/ AppendChild
    \/ RemoveFromParent
    \/ BeginTransaction
    \/ EndTransaction

SpecSceneTree == InitScene /\ [][NextSceneTree]_vars

\* The scene committed by nested transactions, the caller registering
\* continuations on the promises end_transaction returns.
NextSceneCommit ==
    \/ AppendChild
    \/ PresentGLContext(SceneRects)
    \/ BeginTransaction
    \/ EndTransaction
    \/ PromiseThen

SpecSceneCommit == InitScene /\ [][NextSceneCommit]_vars

\* The bounds the caller moves layers of the scene to: the frame of the root
\* away from the origin of the host, a surface moved, a surface resized.
SceneMoves == {Rect(300, 300, 400, 400), Rect(20, 20, 200, 200), Rect(30, 30, 100, 100)}

\* The scene with layers moved and resized.
NextSceneBounds ==
    \/ AppendChild
    \/ SetLayerBounds(SceneMoves)
    \/ PresentGLContext(SceneRects)
    \/ BeginTransaction
    \/ EndTransaction

SpecSceneBounds == InitScene /\ [][NextSceneBounds]_vars

\* begin_transaction(); root = add_container_layer();
\* set_layer_bounds(root, ..); then the surfaces.  No layer is in a tree, no
\* layer is hosted, nothing is invalidated, and the transaction is open.
SceneDetached(debug, options) ==
    LET s0 == begin_transaction(NewContext(debug, SceneIds))
        s1 == add_container_layer(s0)
        s2 == set_layer_bounds(s1, SceneRoot, SceneFrame)
    IN  CHOOSE r \in {SceneWithSurfaces(root, SceneLayers - 1, options) :
                           root \in {s2}} : TRUE

InitAssemble ==
    /\ \E debug \in BOOLEAN, options \in [SceneSurfaces -> SceneOptions] :
          \E r \in {SceneDetached(debug, options)} : StartsAs(r)
    /\ next_cont = 0
    /\ calls = [begin |-> 1, end |-> 0]
    /\ created = [id \in SceneIds |->
                     IF id = SceneRoot THEN "container" ELSE "surface"]
    /\ ncalls = MaxCalls - SceneCalls
    /\ threads = [registrar |-> IdleThread, resolver |-> IdleThread]
    /\ constructing = None

\* A scene assembled before or after its root is hosted.
NextAssemble ==
    \/ AppendChild
    \/ SetLayerBounds({SceneBounds(2)})
    \/ HostLayer
    \/ BeginTransaction
    \/ EndTransaction

SpecAssemble == InitAssemble /\ [][NextAssemble]_vars

\* ------------------------------------------- surfaces and their framebuffers
\* The bounds given to surfaces, in half pixels: 1x1 at the origin, 1x1 at
\* (0.5,0.5), where it touches 2x2 whole pixels, and 2x2 at (1,1).
SurfaceRects == {Rect(0, 0, 2, 2), Rect(1, 1, 2, 2), Rect(2, 2, 4, 4)}

\* begin_transaction(); add_surface_layer(); add_surface_layer(): two
\* detached surfaces without bounds and without framebuffer, and the
\* transaction open.
SurfacesStart(debug) ==
    add_surface_layer(add_surface_layer(begin_transaction(NewContext(debug, LayerIds))))

InitSurfaces ==
    /\ \E debug \in BOOLEAN : \E r \in {SurfacesStart(debug)} : StartsAs(r)
    /\ next_cont = 0
    /\ calls = [begin |-> 1, end |-> 0]
    /\ created = [id \in LayerIds |-> IF id < 2 THEN "surface" ELSE "no"]
    /\ ncalls = MaxCalls - SceneCalls
    /\ threads = [registrar |-> IdleThread, resolver |-> IdleThread]
    /\ constructing = None

NextSurfaces ==
    \/ SetLayerBounds(SurfaceRects)
    \/ SetLayerSurfaceOptions(OptionInputs)
    \/ BindLayerToGLContext
    \/ DeleteLayer

SpecSurfaces == InitSurfaces /\ [][NextSurfaces]_vars

\* ------------------------------------------------- references of insertions
\* begin_transaction(); two containers and a surface, each with bounds; no
\* layer is in a tree and the transaction is open.
ReferenceStart(debug) ==
    LET s0 == begin_transaction(NewContext(debug, LayerIds))
        s1 == add_surface_layer(add_container_layer(add_container_layer(s0)))
        s2 == set_layer_bounds(s1, 0, SceneBounds(0))
        s3 == set_layer_bounds(s2, 1, SceneBounds(1))
    IN  set_layer_bounds(s3, 2, SceneBounds(2))

InitReference ==
    /\ \E debug \in BOOLEAN : \E r \in {ReferenceStart(debug)} : StartsAs(r)
    /\ next_cont = 0
    /\ calls = [begin |-> 1, end |-> 0]
    /\ created = [id \in LayerIds |->
                     IF id < 2 THEN "container" ELSE IF id = 2 THEN "surface" ELSE "no"]
    /\ ncalls = MaxCalls - SceneCalls
    /\ threads = [registrar |-> IdleThread, resolver |-> IdleThread]
    /\ constructing = None

NextReference ==
    \/ HostLayer
    \/ AppendChild
    \/ InsertBefore

SpecReference == InitReference /\ [][NextReference]_vars

\* ------------------------------------------------------------ screenshots
\* The caller asks for an image of a layer while the transaction is open,
\* as examples/screenshot.rs:62-70 does between present_gl_context and
\* end_transaction.
ScreenshotHostedLayer ==
    /\ Ready
    /\ IsSome(transaction)
    /\ next_cont < MaxConts
    /\ \E layer \in Allocated :
          Becomes(screenshot_hosted_layer(State, layer, next_cont),
                  "screenshot_hosted_layer", layer)
    /\ next_cont' = next_cont + 1
    /\ UNCHANGED << calls, created >>

\* The scene, with images of it asked for.
NextScreenshot ==
    \/ AppendChild
    \/ RemoveFromParent
    \/ PresentGLContext(SceneRects)
    \/ BeginTransaction
    \/ EndTransaction
    \/ ScreenshotHostedLayer

SpecScreenshot == InitScene /\ [][NextScreenshot]_vars

\* ---------------------------------------------- a promise shared by threads
\* TransactionPromise is a clone-able handle on Arc<Mutex<Vec<..>>>
\* (lib.rs:226-229): a registrar thread calls then() on a promise
\* end_transaction returned while a resolver thread, or end_transaction on
\* the thread of the LayerContext, runs resolve() on it.

\* resolve, lib.rs:622: mem::replace(&mut *guard, vec![]) under the lock.
resolve_take(s, p) ==
    [s EXCEPT !.promises[p] = << >>, !.resolved[p] = @ + 1]

\* resolve, lib.rs:623: on_fulfilled() for one continuation taken.
resolve_call(s, k) ==
    [s EXCEPT !.runs[k] = @ + 1,
              !.presented_before = called_after(s, << k >>),
              !.screenshots = read_back(s, << k >>)]

\* then, lib.rs:618: self.on_fulfilled.lock() returns once the Mutex is free.
ThenLock ==
    /\ Ready
    /\ threads.registrar.pc = "idle"
    /\ next_cont < MaxConts
    /\ \E p \in returned :
          /\ ~locked(p)
          /\ threads' = [threads EXCEPT !.registrar =
                             [pc |-> "push", promise |-> p, taken |-> << >>]]
    /\ Yields(State, "then", NoLayer)
    /\ UNCHANGED << next_cont, calls, created >>

\* then, lib.rs:618: push(on_fulfilled); the guard is dropped at the end of
\* the statement.
ThenPush ==
    /\ Ready
    /\ threads.registrar.pc = "push"
    /\ Yields(then(State, threads.registrar.promise, next_cont), "then", NoLayer)
    /\ next_cont' = next_cont + 1
    /\ threads' = [threads EXCEPT !.registrar = IdleThread]
    /\ UNCHANGED << calls, created >>

\* resolve, lib.rs:622: lock the Mutex and take the queue out of it.  The
\* guard is a temporary of the iterator expression of the for loop: it
\* lives until the loop ends.
ResolveTake ==
    /\ Ready
    /\ threads.resolver.pc = "idle"
    /\ \E p \in 0..(next_promise - 1) :
          /\ resolved[p] < MaxResolves
          /\ ~locked(p)
          /\ threads' = [threads EXCEPT !.resolver =
                             [pc |-> "calling", promise |-> p, taken |-> promises[p]]]
          /\ Yields(resolve_take(State, p), "resolve", NoLayer)
    /\ UNCHANGED << next_cont, calls, created >>

\* resolve, lib.rs:622-624: one iteration of the for loop.
ResolveCall ==
    /\ Ready
    /\ threads.resolver.pc = "calling"
    /\ threads.resolver.taken # << >>
    /\ Yields(resolve_call(State, Head(threads.resolver.taken)), "resolve", NoLayer)
    /\ threads' = [threads EXCEPT !.resolver.taken = Tail(@)]
    /\ UNCHANGED << next_cont, calls, created >>

\* resolve, lib.rs:624: the loop is over and the guard is dropped.
ResolveUnlock ==
    /\ Ready
    /\ threads.resolver.pc = "calling"
    /\ threads.resolver.taken = << >>
    /\ Yields(State, "resolve", NoLayer)
    /\ threads' = [threads EXCEPT !.resolver = IdleThread]
    /\ UNCHANGED << next_cont, calls, created >>

\* end_transaction on the thread of the LayerContext: the backend's
\* promise.resolve() (gl.rs:215) waits for the Mutex of the promise.
LockedEndTransaction ==
    /\ IF IsNone(transaction) THEN TRUE
       ELSE IF Unwrap(transaction).level > 1 THEN TRUE
       ELSE ~locked(Unwrap(transaction).promise)
    /\ EndTransaction

NextThreads ==
    \/ BeginTransaction
    \/ LockedEndTransaction
    \/ ThenLock
    \/ ThenPush
    \/ ResolveTake
    \/ ResolveCall
    \/ ResolveUnlock

SpecThreads == Init /\ [][NextThreads]_vars

\* resolve, lib.rs:622-624: one iteration of the for loop whose continuation
\* calls then() on a clone of the promise being resolved, on the thread of
\* resolve().  then() calls lock() (lib.rs:618).  While the guard of resolve()
\* is alive the Mutex is held by this very thread, and std's Mutex::lock
\* then does not return: it blocks for ever or panics, whichever the
\* platform does.  With the Mutex free, then() pushes and returns.
ResolveCallThen ==
    /\ Ready
    /\ threads.resolver.pc = "calling"
    /\ threads.resolver.taken # << >>
    /\ next_cont < MaxConts
    /\ LET called == resolve_call(State, Head(threads.resolver.taken)) IN
       IF locked(threads.resolver.promise)
       THEN /\ \E outcome \in {"deadlock", "panic"} :
                  Yields([called EXCEPT !.fault = outcome], "then", NoLayer)
            /\ UNCHANGED << threads, next_cont >>
       ELSE /\ Yields(then(called, threads.resolver.promise, next_cont), "then", NoLayer)
            /\ next_cont' = next_cont + 1
            /\ threads' = [threads EXCEPT !.resolver.taken = Tail(@)]
    /\ UNCHANGED << calls, created >>

\* The threads, with continuations that register continuations.
NextReentrant ==
    \/ BeginTransaction
    \/ LockedEndTransaction
    \/ ThenLock
    \/ ThenPush
    \/ ResolveTake
    \/ ResolveCall
    \/ ResolveCallThen
    \/ ResolveUnlock

SpecReentrant == Init /\ [][NextReentrant]_vars

\* A caller of the GL backend alone: end_transaction resolves the promise
\* (gl.rs:215) and nothing else does; the caller registers continuations on
\* the promises it was handed.  The caller goes on calling while a call is
\* possible.
NextCommit ==
    \/ BeginTransaction
    \/ EndTransaction
    \/ PromiseThen

SpecCommit == Init /\ [][NextCommit]_vars /\ WF_vars(NextCommit)

\* ------------------------------------------- backends::alternate::Backend
\* The winit WindowBuilders a caller may hand over.
WindowBuilders == 1..MaxBuilders

\* ConnectionError (lib.rs:587-590) with the winit feature: the
\* window_builder it carries, if any.
ConnectionErrors ==
    [window_builder : {None} \cup {Some(w) : w \in WindowBuilders}]

\* ConnectionError::new (lib.rs:598-606): no window builder.
NewConnectionError == [window_builder |-> None]

\* Connection<NativeConnection<A, B>> (lib.rs:201-205, alternate.rs:33-40):
\* a native connection of A, a native connection of B, or a winit window
\* builder with its event loop.
Connections ==
    {[kind |-> k, window_builder |-> None] : k \in {"NativeA", "NativeB"}}
        \cup {[kind |-> "Winit", window_builder |-> Some(w)] : w \in WindowBuilders}

\* What A::new or B::new returns: Ok(backend), or Err(err) with err a
\* ConnectionError.
NewResults ==
    {[ok |-> TRUE, err |-> NewConnectionError]}
        \cup {[ok |-> FALSE, err |-> e] : e \in ConnectionErrors}

\* The outcome of Backend::new: the value returned ("A", "B" or "Err" with
\* its error) or "panic", and the connection B::new was called with, if it
\* was called.
Constructed(value, err, b_connection) ==
    [value |-> value, err |-> err, b_connection |-> b_connection]

\* alternate::Backend::new (alternate.rs:31-52), given what A::new and
\* B::new return when they are called.  On a winit connection B::new is
\* called with err.window_builder.unwrap() of the error of A.
alternate_new(connection, a_new, b_new) ==
    IF connection.kind = "NativeA"
    THEN IF a_new.ok THEN Constructed("A", NewConnectionError, None)
         ELSE Constructed("Err", a_new.err, None)
    ELSE IF connection.kind = "NativeB"
    THEN IF b_new.ok THEN Constructed("B", NewConnectionError, Some(connection))
         ELSE Constructed("Err", b_new.err, Some(connection))
    ELSE IF a_new.ok THEN Constructed("A", NewConnectionError, None)
    ELSE IF IsNone(a_new.err.window_builder)
    THEN Constructed("panic", NewConnectionError, None)
    ELSE LET b_connection == [kind |-> "Winit",
                              window_builder |-> a_new.err.window_builder]
         IN  IF b_new.ok THEN Constructed("B", NewConnectionError, Some(b_connection))
             ELSE Constructed("Err", b_new.err, Some(b_connection))

\* A caller about to construct the alternate backend from a connection; the
\* backends A and B answer new() as they will.
InitAlternate ==
    /\ \E debug \in BOOLEAN : StartsAs(NewContext(debug, LayerIds))
    /\ next_cont = 0
    /\ calls = [begin |-> 0, end |-> 0]
    /\ created = [id \in LayerIds |-> "no"]
    /\ ncalls = 0
    /\ threads = [registrar |-> IdleThread, resolver |-> IdleThread]
    /\ \E connection \in Connections, a_new \in NewResults, b_new \in NewResults :
          constructing = Some([connection |-> connection, a_new |-> a_new,
                               b_new |-> b_new, result |-> None])

\* The call Backend::new(connection).
AlternateNew ==
    /\ IsSome(constructing)
    /\ IsNone(Unwrap(constructing).result)
    /\ LET call == Unwrap(constructing)
       IN  constructing' = Some([call EXCEPT !.result =
               Some(alternate_new(call.connection, call.a_new, call.b_new))])
    /\ UNCHANGED << debug_assertions, next_layer_id, transaction, tree_component,
                    container_component, geometry_component, surface_component,
                    native_component, hosted_layer, dirty_rect, promises,
                    next_promise, returned, runs, next_cont, resolved, registered,
                    hooks, calls, created, fault, ncalls, threads, frame,
                    screenshots, gl_interface, presented_before, gl_objects >>

NextAlternate == AlternateNew

SpecAlternate == InitAlternate /\ [][NextAlternate]_vars

\* ------------------------------------------------- reading the child lists
\* The layers whose LayerTreeInfo.parent is Layer(p).
ChildrenOf(s, p) ==
    {c \in LayerIds : /\ has(s.tree_component, c)
                      /\ Unwrap(s.tree_component[c]).parent = Layer(p)}

\* The walk `while let Some(kid) = maybe_kid { ...; maybe_kid =
\* tree_component[kid].next_sibling }` as the sequence of kids it visits.  A
\* walk that comes back to a kid, or reaches a kid without LayerTreeInfo, does
\* not end in the program: the sequence then ends with NoLayer.
RECURSIVE walk_next(_, _, _)
walk_next(s, maybe_kid, seen) ==
    IF IsNone(maybe_kid) THEN << >>
    ELSE LET kid == Unwrap(maybe_kid) IN
         IF kid \in seen \/ ~has(s.tree_component, kid) THEN << NoLayer >>
         ELSE << kid >> \o walk_next(s, Unwrap(s.tree_component[kid]).next_sibling,
                                     seen \cup {kid})

\* The same walk along prev_sibling.
RECURSIVE walk_prev(_, _, _)
walk_prev(s, maybe_kid, seen) ==
    IF IsNone(maybe_kid) THEN << >>
    ELSE LET kid == Unwrap(maybe_kid) IN
         IF kid \in seen \/ ~has(s.tree_component, kid) THEN << NoLayer >>
         ELSE << kid >> \o walk_prev(s, Unwrap(s.tree_component[kid]).prev_sibling,
                                     seen \cup {kid})

\* Forward traversal from first_child, reverse traversal from last_child.
forward(s, p) == walk_next(s, Unwrap(s.container_component[p]).first_child, {})
backward(s, p) == walk_prev(s, Unwrap(s.container_component[p]).last_child, {})

Reverse(q) == [i \in 1..Len(q) |-> q[Len(q) + 1 - i]]
Range(q) == {q[i] : i \in 1..Len(q)}

\* The sibling list of container p is a consistent doubly linked list.
ListConsistent(s, p) ==
    LET f == forward(s, p)
        last_child == Unwrap(s.container_component[p]).last_child
    IN  /\ Range(f) = ChildrenOf(s, p)
        /\ Len(f) = Cardinality(ChildrenOf(s, p))
        /\ last_child = IF f = << >> THEN None ELSE Some(f[Len(f)])
        /\ backward(s, p) = Reverse(f)
        /\ \A c \in ChildrenOf(s, p) :
              LET next_sibling == Unwrap(s.tree_component[c]).next_sibling IN
              IsSome(next_sibling) =>
                  /\ has(s.tree_component, Unwrap(next_sibling))
                  /\ Unwrap(s.tree_component[Unwrap(next_sibling)]).prev_sibling = Some(c)

\* A state every call has returned into, in a build that checks every
\* debug_assert!: no precondition of the API was broken on the way here.
Checked == debug_assertions /\ fault = NoFault

\* ------------------------------------------------------------------ C1
\* C1: after any sequence of insert_before / append_child /
\* remove_from_parent on a container P, following next_sibling from
\* P.first_child visits exactly the layers whose parent is Layer(P), each
\* once, ending at P.last_child; following prev_sibling from P.last_child
\* visits them in the reverse order; and c.next_sibling = d implies
\* d.prev_sibling = c.  Stated for the calls that kept every precondition.
C1_SiblingListConsistent ==
    Checked =>
        \A p \in LayerIds :
            has(container_component, p) => ListConsistent(State, p)

\* ------------------------------------------------------------------ C2
\* The abstract ordered sequence of children: c immediately before
\* reference, every other child where it was; at the tail without reference.
SeqInsertBefore(q, c, reference) ==
    IF IsNone(reference) THEN Append(q, c)
    ELSE LET i == CHOOSE i \in 1..Len(q) : q[i] = Unwrap(reference)
         IN  SubSeq(q, 1, i - 1) \o << c >> \o SubSeq(q, i, Len(q))

ReferenceInputs == {None} \cup {Some(l) : l \in LayerIds}

\* C2: the linked list refines the abstract ordered sequence of children:
\* whenever insert_before(parent, new_child, reference) returns, on a list
\* that was consistent, the order read by forward traversal from first_child
\* is the old order with new_child immediately before reference, or at the
\* tail when reference is None (append_child).
C2_InsertRefinesSequence ==
    [][ \A parent \in LayerIds, new_child \in LayerIds, reference \in ReferenceInputs :
          ( /\ Checked
            /\ has(container_component, parent)
            /\ ListConsistent(State, parent)
            /\ Becomes(insert_before(State, parent, new_child, reference),
                       "insert_before", new_child)
            /\ fault' = NoFault )
          => forward(State', parent)
               = SeqInsertBefore(forward(State, parent), new_child, reference)
      ]_vars

\* ------------------------------------------------------------------ C3
\* C3: in every reachable state, a layer whose LayerTreeInfo.parent is
\* Layer(P) refers to a P that still has a LayerContainerInfo, and the layer
\* is a member of P's child list; also after delete_layer of a detached
\* container that still has children.
C3_ParentIsLinkedContainer ==
    Checked =>
        \A l \in LayerIds :
            (has(tree_component, l) /\ IsLayerParent(Unwrap(tree_component[l]).parent)) =>
                LET p == ParentLayer(Unwrap(tree_component[l]).parent)
                IN  /\ has(container_component, p)
                    /\ l \in Range(forward(State, p))

\* ------------------------------------------------------------------ C4
\* C4: every layer id returned by add_container_layer or add_surface_layer
\* and not yet deleted has exactly one of LayerContainerInfo and
\* LayerSurfaceInfo, the one it was created with, and no layer id ever has
\* both (set_layer_surface_options on a container id included).
C4_ExactlyOneKind ==
    \A l \in LayerIds :
        /\ ~(has(container_component, l) /\ has(surface_component, l))
        /\ created[l] = "container" =>
               has(container_component, l) /\ ~has(surface_component, l)
        /\ created[l] = "surface" =>
               has(surface_component, l) /\ ~has(container_component, l)

\* set_layer_surface_options was called, in a transaction, on a container.
C4_Witness ==
    /\ fault.op = "set_layer_surface_options"
    /\ IsSome(transaction)
    /\ created[fault.layer] = "container"
    /\ has(container_component, fault.layer)

\* ------------------------------------------------------------------ C5
\* The step is the call delete_layer(l).
DeleteStep(l) == Becomes(delete_layer(State, l), "delete_layer", l)

\* No component of l is present after the step.
AllAbsentAfter(l) ==
    /\ ~has(tree_component', l)
    /\ ~has(container_component', l)
    /\ ~has(geometry_component', l)
    /\ ~has(surface_component', l)

\* C5 as claimed: delete_layer(l) on a layer that has a parent (Layer(p) or
\* NativeHost) fails and leaves every component map unchanged; a
\* delete_layer(l) that returns, as after remove_from_parent(l), leaves the
\* tree, container, geometry and surface components of l absent (no step
\* that returns with a component of l present is delete_layer(l)).
C5_DeleteParentedFails ==
    [][ \A l \in LayerIds :
          /\ (has(tree_component, l) /\ DeleteStep(l)) =>
                 (fault'.kind = "panic" /\ UNCHANGED maps)
          /\ (fault' = NoFault /\ ~AllAbsentAfter(l)) => ~DeleteStep(l)
      ]_vars

\* C5 amended: the same, where the first half is about a build with debug
\* assertions (the guard is a debug_assert!).
C5_DeleteParentedFailsInDebug ==
    [][ \A l \in LayerIds :
          /\ (debug_assertions /\ has(tree_component, l) /\ DeleteStep(l)) =>
                 (fault'.kind = "panic" /\ UNCHANGED maps)
          /\ (fault' = NoFault /\ ~AllAbsentAfter(l)) => ~DeleteStep(l)
      ]_vars

\* delete_layer stopped, in a transaction, on a layer that has a parent.
C5_Witness ==
    /\ debug_assertions
    /\ fault.kind = "panic"
    /\ fault.op = "delete_layer"
    /\ IsSome(transaction)
    /\ has(tree_component, fault.layer)

\* ------------------------------------------------------------------ C6
\* The step ran Backend::end_transaction / Backend::begin_transaction.
EndHookFired == hooks'.end_transaction = hooks.end_transaction + 1
BeginHookFired == hooks'.begin_transaction = hooks.begin_transaction + 1

\* C6: over begin_transaction / end_transaction calls from Idle,
\* Backend::end_transaction runs in exactly the steps that are an
\* end_transaction call making the number of end calls equal to the number
\* of begin calls since the context was last Idle, once per such step, and
\* never in a step that leaves the nesting level at 1 or more.
C6_EndHookWhenBalanced ==
    [][ /\ hooks'.end_transaction \in {hooks.end_transaction, hooks.end_transaction + 1}
        /\ EndHookFired <=> (calls'.end = calls.end + 1 /\ calls'.end = calls'.begin)
        /\ EndHookFired => IsNone(transaction')
      ]_vars

\* Two begin_transaction calls and two end_transaction calls: one hook call.
C6_Witness ==
    /\ fault = NoFault
    /\ calls = [begin |-> 2, end |-> 2]
    /\ hooks.end_transaction = 1

\* ------------------------------------------------------------------ C7
\* The hook calls so far alternate, begin first, and a transaction record
\* exists exactly between a begin hook and the next end hook.
HooksAlternate ==
    /\ hooks.end_transaction <= hooks.begin_transaction
    /\ hooks.begin_transaction <= hooks.end_transaction + 1
    /\ IsSome(transaction) <=> hooks.begin_transaction = hooks.end_transaction + 1
    /\ IsSome(transaction) => Unwrap(transaction).level >= 1

\* C7: Backend::begin_transaction runs in exactly the steps that take the
\* context from Idle to Open(1), never on a nested begin; a step runs at most
\* one hook; the begin and end hooks alternate, begin first; and the nesting
\* level is at least 1 whenever a transaction record exists.
C7_BeginHookOnlyFromIdle ==
    [][ /\ hooks'.begin_transaction \in {hooks.begin_transaction, hooks.begin_transaction + 1}
        /\ BeginHookFired <=>
               (IsNone(transaction) /\ IsSome(transaction')
                                    /\ Unwrap(transaction').level = 1)
        /\ ~(BeginHookFired /\ EndHookFired)
        /\ HooksAlternate /\ HooksAlternate'
      ]_vars

\* The second transaction, nested two deep: two begin hooks, one end hook.
C7_Witness ==
    /\ IsSome(transaction)
    /\ Unwrap(transaction).level = 2
    /\ hooks = [begin_transaction |-> 2, end_transaction |-> 1]

\* ------------------------------------------------------------------ C8
\* The step is a call of a layer-mutating operation.
LayerMutation ==
    \/ AddContainerLayer
    \/ AddSurfaceLayer
    \/ InsertBefore
    \/ AppendChild
    \/ HostLayer
    \/ RemoveFromParent
    \/ DeleteLayer
    \/ SetLayerBounds(TreeRects)
    \/ SetLayerSurfaceOptions(TreeOptions)

\* end_transaction while Idle fails, runs no backend hook and creates no
\* transaction record (there is no level to underflow).
EndWhileIdleFails ==
    (IsNone(transaction) /\ EndTransaction) =>
        /\ fault'.kind = "panic"
        /\ UNCHANGED << hooks, transaction >>

\* C8 as claimed: a layer-mutating operation called while no transaction is
\* open fails and leaves next_layer_id and all component maps unchanged;
\* end_transaction while Idle fails without Backend::end_transaction and
\* without the level underflowing.
C8_IdleCallsFail ==
    [][ /\ (IsNone(transaction) /\ LayerMutation) =>
               (fault'.kind = "panic" /\ UNCHANGED << next_layer_id, maps >>)
        /\ EndWhileIdleFails
      ]_vars

\* C8 amended: the layer-mutating operations fail so in a build with debug
\* assertions (the guard is a debug_assert!); end_transaction in every build.
C8_IdleCallsFailInDebug ==
    [][ /\ (debug_assertions /\ IsNone(transaction) /\ LayerMutation) =>
               (fault'.kind = "panic" /\ UNCHANGED << next_layer_id, maps >>)
        /\ EndWhileIdleFails
      ]_vars

\* A layer-mutating call stopped after the transaction that made layers ended.
C8_Witness ==
    /\ debug_assertions
    /\ IsNone(transaction)
    /\ hooks.end_transaction = 1
    /\ next_layer_id > 0
    /\ fault.kind = "panic"
    /\ fault.op \in {"add_container_layer", "add_surface_layer", "insert_before",
                     "append_child", "host_layer", "remove_from_parent",
                     "delete_layer", "set_layer_bounds", "set_layer_surface_options"}

\* ------------------------------------------------------------------ C9
\* Continuation k is still in the queue of the promise it was registered on.
Queued(k) == k \in Range(promises[Unwrap(registered[k]).promise])

\* C9: a continuation registered with then() on a promise that was already
\* resolved has run by the time then() returns and is not left queued; a
\* continuation registered on a pending promise is queued, not yet run,
\* until resolve(), and has run once the promise is resolved.
C9_ThenAfterResolveRunsAtOnce ==
    \A k \in ContIds :
        IsSome(registered[k]) =>
            LET at_then == Unwrap(registered[k]).resolved
                now == resolved[Unwrap(registered[k]).promise]
            IN  /\ at_then >= 1 => (runs[k] >= 1 /\ ~Queued(k))
                /\ (at_then = 0 /\ now = 0) => (runs[k] = 0 /\ Queued(k))
                /\ (at_then = 0 /\ now >= 1) => runs[k] >= 1

\* ----------------------------------------------------------------- C10
\* C10: every continuation registered before the first resolve() of its
\* promise is invoked exactly once in total: not before the promise is
\* resolved, once by the first resolve(), which takes it out of the queue,
\* and not again by any later resolve() of the promise or its clones.
C10_RegisteredBeforeResolveRunsOnce ==
    \A k \in ContIds :
        (IsSome(registered[k]) /\ Unwrap(registered[k]).resolved = 0) =>
            IF resolved[Unwrap(registered[k]).promise] = 0
            THEN runs[k] = 0 /\ Queued(k)
            ELSE runs[k] = 1 /\ ~Queued(k)

\* A continuation registered on a pending promise that was then resolved twice.
C10_Witness ==
    \E k \in ContIds :
        /\ IsSome(registered[k])
        /\ Unwrap(registered[k]).resolved = 0
        /\ resolved[Unwrap(registered[k]).promise] >= 2
        /\ runs[k] = 1

\* ----------------------------------------------------------------- C11
\* C11: the promise is one-shot: resolve() on a promise that has already
\* been resolved fails loudly; it neither returns normally nor runs the
\* continuations registered since the first resolution.
C11_SecondResolveFails ==
    [][ \A p \in PromiseIds :
          ( /\ resolved[p] >= 1
            /\ Becomes(resolve(State, p), "resolve", NoLayer) )
          => (fault'.kind = "panic" /\ runs' = runs)
      ]_vars

\* ----------------------------------------------------------------- C19
\* C19: delete_layer retires the id for good: once delete_layer(l) has
\* returned, the tree, container, geometry and surface components of l are
\* absent in every later state, whatever is called with l afterwards.
\* Stated for the calls that passed every debug assertion.
C19_DeletedStaysAbsent ==
    Checked =>
        \A l \in LayerIds :
            created[l] = "deleted" =>
                /\ ~has(tree_component, l)
                /\ ~has(container_component, l)
                /\ ~has(geometry_component, l)
                /\ ~has(surface_component, l)


\* ----------------------------------------------------------------- C20
\* The tree parent of layer l is NativeHost.
IsHosted(l) ==
    /\ has(tree_component, l)
    /\ ~IsLayerParent(Unwrap(tree_component[l]).parent)

\* C20: several layers are hosted independently: in a transaction,
\* host_layer(b) for a detached layer b while another layer a is hosted
\* succeeds and leaves both with parent NativeHost; remove_from_parent(a)
\* while b is hosted too succeeds and leaves b with parent NativeHost.
C20_HostedIndependently ==
    [][ \A a, b \in LayerIds :
          ( /\ a # b
            /\ IsSome(transaction)
            /\ IsHosted(a) )
          => /\ ( /\ ~has(tree_component, b)
                  /\ Becomes(host_layer(State, b), "host_layer", b) )
                => /\ fault' = NoFault
                   /\ has(tree_component', a)
                   /\ Unwrap(tree_component'[a]).parent = NativeHost
                   /\ Unwrap(tree_component'[b]).parent = NativeHost
             /\ ( /\ IsHosted(b)
                  /\ Becomes(remove_from_parent(State, a), "remove_from_parent", a) )
                => /\ fault' = NoFault
                   /\ Unwrap(tree_component'[b]).parent = NativeHost
      ]_vars

\* ----------------------------------------------------------------- C13
\* Continuation k was registered on a promise that end_transaction had
\* already resolved: the promise the outermost end_transaction returned.
RegisteredAfterCommit(k) ==
    /\ IsSome(registered[k])
    /\ Unwrap(registered[k]).resolved >= 1

\* C13: with the GL backend, a continuation registered with then() on the
\* promise the outermost end_transaction returned is eventually executed.
C13_ContinuationEventuallyRuns ==
    \A k \in ContIds : RegisteredAfterCommit(k) ~> (runs[k] >= 1)

\* ----------------------------------------------------------------- C12
\* No thread is inside then() or resolve().
Quiescent ==
    /\ threads.registrar.pc = "idle"
    /\ threads.resolver.pc = "idle"

\* C12: whatever the interleaving of then() on one thread with resolve() on
\* another, once both calls are over and the promise has been resolved,
\* every continuation registered on it has been executed exactly once.
C12_EachContinuationRunsOnce ==
    \A k \in ContIds :
        ( /\ Quiescent
          /\ IsSome(registered[k])
          /\ resolved[Unwrap(registered[k]).promise] >= 1 )
        => runs[k] = 1

\* ----------------------------------------------------------------- C18
\* C18: the id an add_container_layer or add_surface_layer call hands out
\* (the counter before the call) is greater than every id handed out
\* before, deleted or not: ids increase strictly and none is handed out
\* twice, at the end of the 32-bit counter too.
C18_IdsIncreaseWithoutReuse ==
    [][ next_layer_id' # next_layer_id =>
            \A l \in DOMAIN created :
                created[l] # "no" => U32Less(l, next_layer_id)
      ]_vars

\* ----------------------------------------------------------------- C14
\* The surface options chosen for the scene, read back from the state.
OptionsNow == [l \in SceneSurfaces |-> Unwrap(surface_component[l]).options]

\* The scene after append_child(root, l) for l = 1 .. n, in that order.
RECURSIVE SceneAppended(_)
SceneAppended(n) ==
    IF n = 0 THEN SceneStart(debug_assertions, OptionsNow)
    ELSE CHOOSE r \in {append_child(before, SceneRoot, n) :
                           before \in {SceneAppended(n - 1)}} : TRUE

\* The tree is the one left by appending surfaces 1 .. n to the root.
AppendedInOrder(n) ==
    /\ tree_component = SceneAppended(n).tree_component
    /\ container_component = SceneAppended(n).container_component

\* This step is the outermost end_transaction, which commits with a frame
\* to render.
CommitStep ==
    /\ IsSome(transaction)
    /\ Unwrap(transaction).level = 1
    /\ IsSome(dirty_rect)
    /\ IsSome(hosted_layer)
    /\ Becomes(end_transaction(State), "end_transaction", NoLayer)

\* A point of the framebuffer inside surfaces 1, 2 and 3: pixel (75,75).
PointInAll == << 150, 150 >>

\* C14: three overlapping opaque surfaces with framebuffers, appended under
\* the hosted container in the order 1, 2, 3: the commit leaves at a point
\* covered by all three the colour of surface 3 alone, the one inserted
\* last.
C14_LaterOpaqueSiblingWins ==
    [][ ( /\ CommitStep
          /\ \A l \in 1..3 : OptionsNow[l] = OPAQUE
          /\ AppendedInOrder(3) )
        => /\ fault' = NoFault
           /\ \A depth_buffer \in BOOLEAN :
                  ColourAt(State, PointInAll, depth_buffer) = << 3 >>
      ]_vars

\* ----------------------------------------------------------------- C15
\* A point inside surface 1 only: pixel (10,10).
PointInFirst == << 20, 20 >>

\* The frame has a draw of layer a in the opaque pass and, after it, a draw
\* of layer b in the transparent pass.
OpaqueThenTransparent(s, a, b) ==
    LET draws == render_passes(s, Unwrap(s.hosted_layer)).draws
    IN  \E i, j \in 1..Len(draws) :
            /\ i < j
            /\ draws[i].layer = a /\ draws[i].pass = "opaque"
            /\ draws[j].layer = b /\ draws[j].pass = "transparent"

\* Opaque surface 1 at (0,0) and non-opaque surface 2 at (50,50), both with
\* a framebuffer, were appended in that order under the hosted root.
SceneAB ==
    /\ IsSome(hosted_layer)
    /\ OptionsNow[1] = OPAQUE
    /\ OptionsNow[2] = EmptyOptions
    /\ AppendedInOrder(2)

\* C15: with opaque A = surface 1, bounds (0,0,100,100), and non-opaque
\* B = surface 2, bounds (50,50,100,100), appended in that order under the
\* hosted root, the commit succeeds, draws A in the opaque pass and B after
\* it in the transparent pass, leaves A with B blended over it at pixel
\* (75,75) and A alone at pixel (10,10), and resolves the transaction's
\* promise.
C15_OpaqueThenBlended ==
    [][ (CommitStep /\ SceneAB)
        => /\ fault' = NoFault
           /\ OpaqueThenTransparent(State, 1, 2)
           /\ \A depth_buffer \in BOOLEAN :
                  /\ ColourAt(State, PointInAll, depth_buffer) = << 1, 2 >>
                  /\ ColourAt(State, PointInFirst, depth_buffer) = << 1 >>
           /\ resolved'[Unwrap(transaction).promise] = resolved[Unwrap(transaction).promise] + 1
           /\ Unwrap(transaction).promise \in returned'
      ]_vars

\* The scene of A and B has been committed: the transaction is closed, its
\* promise resolved, nothing is left to render and the frame shows A under
\* B at (75,75).
C15_Witness ==
    /\ fault = NoFault
    /\ IsNone(transaction)
    /\ hooks.end_transaction = 1
    /\ resolved[0] = 1
    /\ IsNone(dirty_rect)
    /\ SceneAB
    /\ ColourAt(State, PointInAll, TRUE) = << 1, 2 >>

\* ----------------------------------------------------------------- C16
ZeroSized(r) == r.w = 0 /\ r.h = 0

\* The minimal bounding box of a and b: the smallest rectangle that contains
\* both, a zero-sized rectangle holding nothing to contain.
BoundingBox(a, b) ==
    IF ZeroSized(a) THEN b
    ELSE IF ZeroSized(b) THEN a
    ELSE LET x0 == Min(a.x, b.x)
             y0 == Min(a.y, b.y)
         IN  Rect(x0, y0, Max(a.x + a.w, b.x + b.w) - x0,
                          Max(a.y + a.h, b.y + b.h) - y0)

\* The accumulator after present_gl_context(l, first) and then
\* present_gl_context(l, second).
Accumulated(l, first, second) ==
    present_gl_context(present_gl_context(State, l, first), l, second).dirty_rect

\* The accumulator after present_gl_context(l, r) alone: r in the space of
\* the host when the accumulator was empty, None when l is not in a hosted
\* tree.
InHostSpace(l, r) == present_gl_context(State, l, r).dirty_rect

\* A transaction is open and the accumulator is empty.
EmptyAccumulator ==
    /\ fault = NoFault
    /\ IsSome(transaction)
    /\ IsNone(dirty_rect)

\* C16 as claimed: from an empty accumulator, invalidating A then B leaves
\* the same pending rectangle as B then A, for all rectangles, zero-sized
\* ones included, and it is the minimal bounding box of A and B.
C16_AccumulationCommutes ==
    EmptyAccumulator =>
        \A l \in DOMAIN created, A \in SceneRects, B \in SceneRects :
            IsSome(InHostSpace(l, A)) =>
                /\ Accumulated(l, A, B) = Accumulated(l, B, A)
                /\ Accumulated(l, A, B) =
                       Some(BoundingBox(Unwrap(InHostSpace(l, A)),
                                        Unwrap(InHostSpace(l, B))))

\* C16, amended: from an empty accumulator, unless A and B are two
\* different zero-sized rectangles, invalidating A then B leaves the same
\* pending rectangle as B then A, the minimal bounding box of A and B (the
\* other one when one of them is zero-sized).
C16_AccumulationCommutesButForZeroSized ==
    EmptyAccumulator =>
        \A l \in DOMAIN created, A \in SceneRects, B \in SceneRects :
            (IsSome(InHostSpace(l, A)) /\ ~(ZeroSized(A) /\ ZeroSized(B) /\ A # B)) =>
                LET a == Unwrap(InHostSpace(l, A))
                    b == Unwrap(InHostSpace(l, B))
                IN  /\ Accumulated(l, A, B) = Accumulated(l, B, A)
                    /\ Accumulated(l, A, B) = Some(BoundingBox(a, b))

\* After a commit emptied the accumulator, two rectangles of 10 by 10
\* pixels, at (0,0) and at (20,20), were presented in a new transaction and
\* the accumulator is the box around both.
C16_Witness ==
    /\ fault = NoFault
    /\ hooks.end_transaction >= 1
    /\ IsSome(transaction)
    /\ dirty_rect = Some(Rect(0, 0, 60, 60))

\* What the default framebuffer holds once the commit of the open transaction
\* has drawn its passes: the frame of this commit, or the frame before it
\* where the commit has nothing to draw.
FrameOfCommit ==
    IF IsSome(dirty_rect) /\ IsSome(hosted_layer)
    THEN render_passes(State, Unwrap(hosted_layer)).draws
    ELSE frame

\* The transaction that continuation k was registered in is still open.
TriggeringOpen(k) ==
    /\ IsSome(transaction)
    /\ Unwrap(transaction).promise = Unwrap(registered[k]).promise

Without(q, l) == SelectSeq(q, LAMBDA x : x # l)

\* C21: a remove_from_parent(l) that kept every precondition and returned
\* has taken out the LayerTreeInfo of l and nothing else of l (its
\* container, geometry and surface components stay as they were); of the
\* other layers it has changed at most the LayerTreeInfo of the two
\* neighbours of l and the LayerContainerInfo of its parent; and the other
\* children of the parent are read in the order they were read in before,
\* forward from first_child and backward from last_child.
C21_RemoveRewiresNeighboursOnly ==
    [][ \A l \in LayerIds :
          ( /\ Checked
            /\ has(tree_component, l)
            /\ Becomes(remove_from_parent(State, l), "remove_from_parent", l)
            /\ fault' = NoFault )
          => LET old_tree == Unwrap(tree_component[l]) IN
             /\ ~has(tree_component', l)
             /\ container_component'[l] = container_component[l]
             /\ geometry_component' = geometry_component
             /\ surface_component' = surface_component
             /\ \A o \in LayerIds \ {l} :
                   /\ tree_component'[o] # tree_component[o]
                         => Some(o) \in {old_tree.prev_sibling, old_tree.next_sibling}
                   /\ container_component'[o] # container_component[o]
                         => old_tree.parent = Layer(o)
             /\ IsLayerParent(old_tree.parent) =>
                   LET p == ParentLayer(old_tree.parent) IN
                   /\ forward(State', p) = Without(forward(State, p), l)
                   /\ backward(State', p) = Without(backward(State, p), l)
      ]_vars

\* ------------------------------------------------------------------ C22
\* The call Backend::new was made on a winit connection and is over.
ConstructedFromWindow ==
    /\ IsSome(constructing)
    /\ Unwrap(constructing).connection.kind = "Winit"
    /\ IsSome(Unwrap(constructing).result)

\* C22: the alternate backend constructed from a windowing connection is A
\* when A::new succeeds; when A::new fails, B::new has been called, and the
\* backend is B when B::new succeeds; the call returns a ConnectionError
\* only when both fail, and it panics in no case.
C22_TriesBWhenAFails ==
    ConstructedFromWindow =>
        LET call == Unwrap(constructing)
            result == Unwrap(call.result)
        IN  /\ call.a_new.ok => result.value = "A"
            /\ ~call.a_new.ok => IsSome(result.b_connection)
            /\ (~call.a_new.ok /\ call.b_new.ok) => result.value = "B"
            /\ (~call.a_new.ok /\ ~call.b_new.ok) => result.value = "Err"

\* ------------------------------------------------------------------ C23
\* The step is an invocation of Backend::end_transaction.
BackendEndTransaction == hooks'.end_transaction = hooks.end_transaction + 1

RegisteredWhileOpen(k) ==
    /\ IsSome(registered[k])
    /\ Unwrap(registered[k]).resolved = 0

\* C24: a continuation registered on the promise that a nested
\* end_transaction returned has not run while that transaction is open,
\* the nested end_transaction having returned; and it has run exactly once
\* from the outermost end_transaction on, whose backend commit resolves the
\* promise.
C24_NestedPromiseIsTheOutermost ==
    (fault = NoFault) =>
        \A k \in ContIds :
            RegisteredWhileOpen(k) =>
                IF /\ IsSome(transaction)
                   /\ Unwrap(transaction).promise = Unwrap(registered[k]).promise
                THEN runs[k] = 0
                ELSE runs[k] = 1

\* The outermost end_transaction has run a continuation that was registered
\* on the promise a nested one returned.
C24_Witness ==
    /\ fault = NoFault
    /\ transaction = None
    /\ \E k \in ContIds :
          /\ RegisteredWhileOpen(k)
          /\ runs[k] = 1
          /\ resolved[Unwrap(registered[k]).promise] = 1

\* ------------------------------------------------------------------ C25
\* The step is a commit that drew a frame and presented it.
PresentingCommit ==
    /\ BackendEndTransaction
    /\ fault' = NoFault
    /\ gl_interface'.present = gl_interface.present + 1

\* C25: in a commit of the GL backend that draws, the frame is presented
\* before the promise of the transaction is resolved: a continuation of the
\* promise, run by the commit, is called when the connection has presented
\* the frame of this commit.
C25_ContinuationsRunAfterPresent ==
    [][ PresentingCommit =>
          \A k \in ContIds :
             runs'[k] = runs[k] + 1 =>
                presented_before'[k] = gl_interface'.present
      ]_vars

\* ------------------------------------------------------------------ C26
\* 1 where the commit of this state has to draw, 0 where it has not.
FramesDue == IF IsSome(dirty_rect) /\ IsSome(hosted_layer) THEN 1 ELSE 0

RectContains(outer, inner) ==
    \/ ZeroSized(inner)
    \/ /\ outer.x <= inner.x
       /\ outer.y <= inner.y
       /\ inner.x + inner.w <= outer.x + outer.w
       /\ inner.y + inner.h <= outer.y + outer.h

\* The draws of layer l in the frame a commit of the state after the step
\* renders, none where nothing is hosted.
DrawsAfter(l) ==
    IF IsNone(hosted_layer') THEN {}
    ELSE LET draws == render_passes(State', Unwrap(hosted_layer')).draws
         IN  {draws[i] : i \in {j \in 1..Len(draws) : draws[j].layer = l}}

\* After the step the pending rectangle holds rect, which is relative to
\* the place layer l is drawn at.
PendingCovers(l, rect) ==
    \A d \in DrawsAfter(l) :
        /\ IsSome(dirty_rect')
        /\ RectContains(Unwrap(dirty_rect'), Translate(rect, d.x, d.y))

\* C27: in a hosted tree, with every precondition kept, after
\* append_child(parent, l) and after set_layer_bounds(l, new) the pending
\* rectangle contains the rectangle render_layer draws l at, and after
\* present_gl_context(l, changed) it contains changed at the place l is
\* drawn at; wherever the layers are, the hosted root included.
C27_PendingRectInDrawSpace ==
    [][ \A l \in LayerIds :
          /\ \A parent \in LayerIds :
                ( /\ Checked
                  /\ Becomes(append_child(State, parent, l), "append_child", l)
                  /\ fault' = NoFault )
                => PendingCovers(l, Rect(0, 0, Unwrap(geometry_component'[l]).bounds.w,
                                              Unwrap(geometry_component'[l]).bounds.h))
          /\ \A new_bounds \in SceneMoves :
                ( /\ Checked
                  /\ Becomes(set_layer_bounds(State, l, new_bounds), "set_layer_bounds", l)
                  /\ fault' = NoFault )
                => PendingCovers(l, Rect(0, 0, new_bounds.w, new_bounds.h))
          /\ \A changed_rect \in SceneRects :
                ( /\ Checked
                  /\ Becomes(present_gl_context(State, l, changed_rect),
                             "present_gl_context", l)
                  /\ fault' = NoFault )
                => PendingCovers(l, changed_rect)
      ]_vars

\* ------------------------------------------------------------------ C28
\* The place in the host of the origin of the space layer's children lie
\* in: the origins of layer and of its ancestors added up, as the render
\* passes add them on the way down; None when the chain does not end at the
\* hosted layer.
RECURSIVE OriginInHost(_, _, _)
OriginInHost(s, layer, seen) ==
    IF layer \in seen \/ ~has(s.tree_component, layer)
          \/ ~has(s.geometry_component, layer)
    THEN None
    ELSE LET own == Unwrap(s.geometry_component[layer]).bounds
             up == Unwrap(s.tree_component[layer]).parent
         IN  IF ~IsLayerParent(up)
             THEN IF s.hosted_layer = Some(layer)
                  THEN Some([x |-> own.x, y |-> own.y]) ELSE None
             ELSE LET above == OriginInHost(s, ParentLayer(up), seen \cup {layer})
                  IN  IF IsNone(above) THEN None
                      ELSE Some([x |-> Unwrap(above).x + own.x,
                                 y |-> Unwrap(above).y + own.y])

\* The parent of l where l is attached under a layer of a hosted tree.
AttachedUnder(s, l) ==
    IF /\ IsSome(parent_of(s, l))
       /\ IsLayerParent(Unwrap(parent_of(s, l)))
       /\ IsSome(OriginInHost(s, ParentLayer(Unwrap(parent_of(s, l))), {l}))
    THEN Some(ParentLayer(Unwrap(parent_of(s, l))))
    ELSE None

\* After the step the pending rectangle holds bounds, a rectangle in the
\* space of the children of parent.
PendingCoversBounds(parent, bounds) ==
    LET at == Unwrap(OriginInHost(State', parent, {}))
    IN  \/ ZeroSized(bounds)
        \/ /\ IsSome(dirty_rect')
           /\ RectContains(Unwrap(dirty_rect'), Translate(bounds, at.x, at.y))

\* set_layer_bounds(l, new) has stored new and handed the backend the
\* bounds layer_bounds(l) returned before the call.
HandsOverOldBounds(l, new_bounds) ==
    /\ layer_bounds(State', l) = new_bounds
    /\ Yields(backend_set_layer_bounds(
                  [get_mut_default(State, l)
                      EXCEPT !.geometry_component[l] = Some([bounds |-> new_bounds])],
                  l, layer_bounds(State, l)),
              "set_layer_bounds", l)

\* In a hosted tree the pending rectangle after set_layer_bounds(l, new)
\* covers the old and the new bounds of l in the space of the host.
CoversOldAndNew(l, new_bounds) ==
    IsSome(AttachedUnder(State', l)) =>
        /\ PendingCoversBounds(Unwrap(AttachedUnder(State', l)), layer_bounds(State, l))
        /\ PendingCoversBounds(Unwrap(AttachedUnder(State', l)), new_bounds)

\* C28: with every precondition kept, set_layer_bounds(l, new) hands the
\* backend the bounds l had before the call and layer_bounds(l) afterwards
\* returns new; when l is attached under a parent inside a hosted tree the
\* pending rectangle afterwards covers the old and the new bounds of l,
\* both in the space of the host.
C28_BoundsHandedOverAndCovered ==
    [][ \A l \in LayerIds, new_bounds \in SceneMoves :
          ( /\ Checked
            /\ Becomes(set_layer_bounds(State, l, new_bounds), "set_layer_bounds", l)
            /\ fault' = NoFault )
          => /\ HandsOverOldBounds(l, new_bounds)
             /\ CoversOldAndNew(l, new_bounds)
      ]_vars

\* ------------------------------------------------------------------ C29
\* The layers below the hosted root that a render pass over the tree of
\* this state draws.
VisibleBelowRoot ==
    IF IsNone(hosted_layer) THEN {}
    ELSE LET draws == render_passes(State, Unwrap(hosted_layer)).draws
         IN  {draws[i].layer : i \in 1..Len(draws)} \ {Unwrap(hosted_layer)}

\* The layers drawn in the frame on screen after the step.
OnScreenAfter == {frame'[i].layer : i \in 1..Len(frame')}

\* C29: with every precondition kept, a commit leaves on screen every
\* layer of the hosted subtree that a render pass draws: what a transaction
\* made visible below the hosted root (children appended and bounds set
\* before or after host_layer) is rendered by the commit of that
\* transaction.
C29_AssembledSubtreeIsRendered ==
    [][ (Checked /\ BackendEndTransaction /\ fault' = NoFault) =>
            VisibleBelowRoot \subseteq OnScreenAfter
      ]_vars

\* ------------------------------------------------------------------ C30
\* Layer l is a surface layer with a cached framebuffer in the subtree of
\* the hosted layer: its parents lead to the hosted layer.
CachedSurfaceInHostedSubtree(l) ==
    /\ has(surface_component, l)
    /\ has(native_component, l)
    /\ IsSome(Unwrap(native_component[l]).framebuffer)
    /\ IsSome(OriginInHost(State, l, {}))

\* The passes in which the frame drawn by the step draws layer l, one entry
\* for each draw.
PassesDrawing(l) ==
    LET at == {i \in 1..Len(frame') : frame'[i].layer = l}
    IN  [n |-> Cardinality(at), passes |-> {frame'[i].pass : i \in at}]

\* C30: with every precondition kept, a commit that renders draws every
\* surface layer with a cached framebuffer in the subtree of the hosted
\* layer exactly once, in the opaque pass if its options contain OPAQUE and
\* in the transparent pass otherwise, and draws no container layer.
C30_EachCachedSurfaceDrawnOnce ==
    [][ (Checked /\ PresentingCommit) =>
          \A l \in LayerIds :
             /\ CachedSurfaceInHostedSubtree(l) =>
                   PassesDrawing(l) =
                      [n |-> 1,
                       passes |-> IF Contains(Unwrap(surface_component[l]).options, OPAQUE)
                                  THEN {"opaque"} ELSE {"transparent"}]
             /\ has(container_component, l) => PassesDrawing(l).n = 0
      ]_vars

\* ------------------------------------------------------------------ C31
\* The state with the options of every surface layer replaced by options:
\* the passes visit the same layers with the same depth slots whatever the
\* options are, and the pass that draws these options draws each visit.
WithOptions(s, options) ==
    [s EXCEPT !.surface_component =
        [l \in DOMAIN @ |-> IF IsSome(@[l]) THEN Some([options |-> options]) ELSE None]]

\* The visits of a pass over the hosted subtree of this state, in visiting
\* order: the layer and the depth slot it is given.
VisitsOf(pass, options) ==
    LET draws == render_passes(WithOptions(State, options), Unwrap(hosted_layer)).draws
        at == SelectSeq(draws, LAMBDA d : d.pass = pass)
    IN  [i \in 1..Len(at) |-> [layer |-> at[i].layer, depth |-> at[i].depth]]

OpaqueVisits == VisitsOf("opaque", OPAQUE)
TransparentVisits == VisitsOf("transparent", EmptyOptions)

\* C31: with every precondition kept, in a commit that renders the
\* transparent pass visits the surface layers in the reverse of the order
\* of the opaque pass and gives each the depth slot the opaque pass gave
\* it, the slots of the opaque pass grow strictly in visiting order, and
\* the depth counter is back at 0 after the transparent pass.
C31_TransparentPassMirrorsOpaque ==
    [][ (Checked /\ PresentingCommit) =>
          /\ TransparentVisits = Reverse(OpaqueVisits)
          /\ \A i \in 1..Len(OpaqueVisits), j \in 1..Len(OpaqueVisits) :
                i < j => OpaqueVisits[i].depth < OpaqueVisits[j].depth
          /\ render_passes(State, Unwrap(hosted_layer)).depth = 0
      ]_vars

\* ------------------------------------------------------------------ C32
\* The walk q over the kids of a container reached the end of the list.
Terminates(q) == \A i \in 1..Len(q) : q[i] # NoLayer

\* C32: with every precondition kept, after any sequence of insert_before,
\* append_child and remove_from_parent the walk of the opaque pass from
\* first_child along next_sibling and the walk of the transparent pass from
\* last_child along prev_sibling reach the end of the list, for every
\* container: no operation makes a cycle of siblings.
C32_SiblingWalksTerminate ==
    Checked =>
        \A p \in LayerIds :
            has(container_component, p) =>
                /\ Terminates(forward(State, p))
                /\ Terminates(backward(State, p))

\* ------------------------------------------------------------------ C33
\* Following LayerTreeInfo.parent from layer ends: at a layer whose parent
\* is NativeHost or at a layer without LayerTreeInfo, no layer met twice.
RECURSIVE ParentWalkEnds(_, _, _)
ParentWalkEnds(s, layer, seen) ==
    IF layer \in seen THEN FALSE
    ELSE IF ~has(s.tree_component, layer) THEN TRUE
    ELSE LET up == Unwrap(s.tree_component[layer]).parent
         IN  IF ~IsLayerParent(up) THEN TRUE
             ELSE ParentWalkEnds(s, ParentLayer(up), seen \cup {layer})

\* C33: with every checked precondition in force, no sequence of
\* operations makes a layer its own ancestor: following the parent links
\* from any layer ends, and no operation ends in the recursion without end
\* of invalidate_layer up a chain of parents that comes back to a layer.
C33_ParentWalkTerminates ==
    debug_assertions =>
        /\ fault.kind # "stack_overflow"
        /\ fault = NoFault => \A l \in LayerIds : ParentWalkEnds(State, l, {})

\* ------------------------------------------------------------------ C34
\* C34: with every precondition kept, when bind_layer_to_gl_context(l) has
\* returned, l has a cached framebuffer whose size is l's current bounds
\* rounded out to whole pixels, whatever set_layer_bounds and
\* bind_layer_to_gl_context calls on l came before.
C34_BoundFramebufferFitsBounds ==
    [][ \A l \in LayerIds :
          ( /\ Checked
            /\ Becomes(bind_layer_to_gl_context(State, l), "bind_layer_to_gl_context", l)
            /\ fault' = NoFault )
          => /\ has(native_component', l)
             /\ IsSome(Unwrap(native_component'[l]).framebuffer)
             /\ Unwrap(Unwrap(native_component'[l]).framebuffer).size
                    = RoundOutSize(layer_bounds(State', l))
      ]_vars

\* ------------------------------------------------------------------ C35
\* C35: with every precondition kept, a surface layer's cached framebuffer
\* has a depth/stencil renderbuffer exactly if the layer's current surface
\* options contain DEPTH or STENCIL, also after set_layer_surface_options
\* has changed the options of a layer that has its framebuffer.
C35_RenderbufferFollowsOptions ==
    Checked =>
        \A l \in LayerIds :
            ( /\ has(surface_component, l)
              /\ has(native_component, l)
              /\ IsSome(Unwrap(native_component[l]).framebuffer) )
            => Unwrap(Unwrap(native_component[l]).framebuffer).depth_stencil_renderbuffer
                  = IntersectsDepthStencil(Unwrap(surface_component[l]).options)

\* ------------------------------------------------------------------ C36
\* The GL objects of layer l that are generated and not deleted.
Allocations(l) ==
    [kind \in {"framebuffers", "textures", "renderbuffers"} |->
        gl_objects[l].generated[kind] - gl_objects[l].deleted[kind]]

\* C36: with every precondition kept, after any sequence of
\* bind_layer_to_gl_context, set_layer_bounds and delete_layer no GL object
\* of a layer has been deleted more often than generated, and none is
\* allocated for a layer that has been deleted.
C36_ObjectsReleasedOnce ==
    Checked =>
        \A l \in LayerIds :
            /\ \A kind \in DOMAIN Allocations(l) : Allocations(l)[kind] >= 0
            /\ created[l] = "deleted" =>
                   \A kind \in DOMAIN Allocations(l) : Allocations(l)[kind] = 0

\* ------------------------------------------------------------------ C37
\* The step is insert_before(parent, new_child, Some(reference)).
InsertBeforeStep(parent, new_child, reference) ==
    /\ fault = NoFault
    /\ IF fault' = NoFault
       THEN /\ has(tree_component', new_child)
            /\ Unwrap(tree_component'[new_child]).parent = Layer(parent)
            /\ Unwrap(tree_component'[new_child]).next_sibling = Some(reference)
       ELSE fault'.op = "insert_before" /\ fault'.layer = new_child
    /\ Becomes(insert_before(State, parent, new_child, Some(reference)),
               "insert_before", new_child)

\* The call failed and modified no component map and no state of the
\* backend.
FailedUntouched ==
    /\ fault'.kind = "panic"
    /\ UNCHANGED << maps, native_component, hosted_layer, dirty_rect,
                    gl_objects, gl_interface >>

\* C37 as claimed: insert_before(parent, new_child, Some(reference)) with a
\* reference that is not a child of parent fails and modifies no component
\* map and no backend state.
C37_ForeignReferenceFails ==
    [][ \A parent \in LayerIds, new_child \in LayerIds, reference \in LayerIds :
          ( /\ parent_of(State, reference) # Some(Layer(parent))
            /\ InsertBeforeStep(parent, new_child, reference) )
          => FailedUntouched
      ]_vars

\* C37 amended: it fails so in a build with debug assertions (the guard is
\* a debug_assert_eq!), and in every build when the reference is detached
\* (the read of its LayerTreeInfo panics before anything is written).
C37_ForeignReferenceFailsInDebug ==
    [][ \A parent \in LayerIds, new_child \in LayerIds, reference \in LayerIds :
          ( /\ parent_of(State, reference) # Some(Layer(parent))
            /\ debug_assertions \/ ~has(tree_component, reference)
            /\ InsertBeforeStep(parent, new_child, reference) )
          => FailedUntouched
      ]_vars

\* insert_before stopped, in a debug build and in a transaction, on a
\* detached new child while a layer is hosted and no layer is a child of
\* any layer: whatever the reference was, it was not a child of the parent.
C37_Witness ==
    /\ debug_assertions
    /\ fault.kind = "panic"
    /\ fault.op = "insert_before"
    /\ IsSome(transaction)
    /\ IsSome(hosted_layer)
    /\ ~has(tree_component, fault.layer)
    /\ \A p \in LayerIds : ChildrenOf(State, p) = {}

\* ------------------------------------------------------------------ C38
\* The step is a call that attaches layer l: insert_before, append_child or
\* host_layer with l as the new child or the hosted layer.
AttachStep(l) ==
    /\ fault = NoFault
    /\ IF \E parent \in LayerIds, reference \in LayerIds :
             InsertBeforeStep(parent, l, reference)
       THEN TRUE
       ELSE IF \E parent \in LayerIds :
                  Becomes(append_child(State, parent, l), "append_child", l)
       THEN TRUE
       ELSE Becomes(host_layer(State, l), "host_layer", l)

\* The call failed and left the sibling links, the child lists and the
\* backend's hosted layer and dirty rectangle as they were.
FailedAttachmentUntouched ==
    /\ fault'.kind = "panic"
    /\ UNCHANGED << tree_component, container_component, hosted_layer, dirty_rect >>

\* C38 as claimed: insert_before, append_child and host_layer applied to a
\* layer that already has a LayerTreeInfo fail and leave the sibling links,
\* first_child/last_child of every container, the hosted layer and the
\* dirty rectangle unchanged.
C38_AttachedLayerNotAttachedAgain ==
    [][ \A l \in LayerIds :
          (has(tree_component, l) /\ AttachStep(l)) => FailedAttachmentUntouched
      ]_vars

\* C38 amended: they fail so in a build with debug assertions (the guard is
\* the debug_assert! of LayerMap::add).
C38_AttachedLayerNotAttachedAgainInDebug ==
    [][ \A l \in LayerIds :
          (debug_assertions /\ has(tree_component, l) /\ AttachStep(l))
             => FailedAttachmentUntouched
      ]_vars

\* In a debug build, append_child or host_layer stopped on a layer that is
\* the child of a container.
C38_Witness ==
    /\ debug_assertions
    /\ fault.kind = "panic"
    /\ fault.op \in {"append_child", "host_layer"}
    /\ IsSome(transaction)
    /\ has(tree_component, fault.layer)
    /\ IsLayerParent(Unwrap(tree_component[fault.layer]).parent)

\* ------------------------------------------------------------------ C39
\* C39: a continuation that calls then() on the promise whose resolve() is
\* running it returns from then(): the call neither blocks for ever nor
\* panics, the Mutex of the promise not being held while continuations
\* run.
C39_ReentrantThenReturns ==
    ~(fault.op = "then" /\ fault.kind \in {"deadlock", "panic"})

====
